---------------------------- MODULE Spec2Model ----------------------------
(***************************************************************************)
(* Model of the HID transport bridging and bus fan-out layer:              *)
(*   - the bus registry of src/hidbus.c (lines 54-337): enumeration of     *)
(*     top-level collections, hid_set_intr, hid_start, hid_stop and the    *)
(*     broadcast routine hidbus_intr;                                      *)
(*   - the USB backend of src/usbhid.c: the interrupt pipe and the         *)
(*     synchronous transfer bridge usbhid_sync_xfer with its callbacks;    *)
(*   - the I2C acquisition engine of src/hidbus.c (lines 807-1079).        *)
(*                                                                         *)
(* A section of code that runs with the shared mutex held from its first   *)
(* to its last statement is one action.  Code that sleeps (and so drops    *)
(* the mutex) or that runs without the mutex is split at those points.     *)
(***************************************************************************)
EXTENDS Integers, Sequences, FiniteSets, TLC

\* ------------------------------------------------------------------ bounds
\* Largest number of items of a report descriptor handed to enumeration.
MaxItems == 2
\* Largest usage value carried by a collection item.
MaxUsage == 1
\* Largest transfer length reported by the USB interrupt pipe.
MaxActLen == 3
\* Number of distinct report contents.
MaxReport == 1
\* Number of threads calling usbhid_sync_xfer.
NThreads == 2
\* Number of exchanges told apart in one behaviour.
MaxExch == 2
\* Number of transfer errors the USB stack reports for one started transfer.
MaxErrs == 2
\* The countdown of the polling loop starts here (USB_DEFAULT_TIMEOUT ticks).
PollTicks == 2
\* The kernel's clock ticks per second.
hz == 100
\* The interval, in ticks, that callout_reset is given at a positive rate.
callout_interval(rate) == IF rate > 0 THEN hz \div rate ELSE 0
\* Largest number of top-level collections of a long descriptor.
MaxColls == 257
\* sc->input_size, the size of the I2C input buffer (wMaxInputLength).
input_size == 3
\* Largest report length asked of iichid_get_report.
MaxRepLen == 1
\* Largest value of a payload byte in a GET_REPORT response.
MaxByte == 1
\* Largest length a caller asks for.
MaxLen == 2

\* --------------------------------------------------------------- constants
NULL == 0
ENXIO == 6
EIO == 5
ENOBUFS == 55
ETIMEDOUT == 60
EINVAL == 22
\* the polling rate used when no interrupt is available
IICHID_DEFAULT_SAMPLING_RATE == 60
\* sc_hw.rdsize, the interrupt-in buffer size the report length is clipped to
rdsize == 2
\* the index of a child registered by name
UHID_INDEX == 255
\* the GET_REPORT opcode of the I2C HID command set
I2C_HID_CMD_GET_REPORT == 2

VARIABLES
    \* ---- bus registry (struct hidbus_softc)
    bus_state,      \* "init" before hidbus_attach, "attached", "failed"
    tlcs,           \* STAILQ of hidbus_ivar: [child, index, usage, open, intr]
    \* ---- USB backend, interrupt pipe
    intr_running,   \* sc_xfer[USBHID_INTR_DT_RD] is started
    intr_setups,    \* HID_INTR_SETUP calls not undone by HID_INTR_UNSETUP
    \* ---- observation of the calls made (history)
    last,           \* the last bus call: [op, child, preOpen, issued] and,
                    \* for hidbus_attach, [descr, colls, error, unsetups]
    disp,           \* the last dispatch: [buf, len, locked], seq counts them mod 3
    delivered,      \* callbacks invoked by the last dispatch, in call order
    panic,          \* a KASSERT of hidbus_intr has fired
    \* ---- USB backend, synchronous transfer bridge
    sc_tr,          \* struct usbhid_xfer_ctx: [req, buf, len, error, waiters, influx]
    xfer,           \* per bridge transfer: [st, owner, next, errs]
    pc,             \* per caller: its position in usbhid_sync_xfer
    call,           \* per caller: the exchange it runs, [e, idx, len, own]
    ret,            \* the last return of usbhid_sync_xfer:
                    \* [t, e, error, idx, len, own, polled, iters, wrote]
    nexch,          \* number of exchanges begun so far
    cbw,            \* the last outcome write or re-arm of a callback (history)
    poll,           \* the polling-mode call:
                    \* [active, save, c, looping, timeout, wrote]
    \* ---- I2C acquisition engine (struct iichid)
    iic,            \* [state, sampling_rate, callout_setup, callout_pending,
                    \*  irq_res, irq_cookie, task_pending, task_pc, mtx, op]
    \* ---- raw-report device node (struct uhid_softc)
    raw             \* [sc_isize, c_cc, open, aslp, immed, sc_dying, sc_refcnt,
                    \*  detach_pc, reports, rd]

bus_vars_but_raw == <<bus_state, tlcs, intr_running, intr_setups, last, disp,
                     delivered, panic>>
bus_vars == <<bus_vars_but_raw, raw>>
xfer_vars == <<sc_tr, xfer, pc, call, ret, nexch, cbw, poll>>
vars == <<bus_state, tlcs, intr_running, intr_setups, last, disp, delivered, panic,
          sc_tr, xfer, pc, call, ret, nexch, cbw, poll, iic, raw>>

\* ------------------------------------------------------- report descriptor
\* What hid_get_item() yields for a descriptor: a sequence of items, each
\* with its kind, its collection level and (for collections) its usage.
Items ==
    [kind : {"collection"}, collevel : {1, 2}, usage : 1..MaxUsage]
    \cup [kind : {"endcollection", "input"}, collevel : {0, 1}, usage : {0}]

RECURSIVE SeqsUpTo(_, _)
SeqsUpTo(S, n) ==
    IF n = 0 THEN {<<>>}
    ELSE LET shorter == SeqsUpTo(S, n - 1)
         IN  shorter \cup {Append(s, x) : s \in {q \in shorter : Len(q) = n - 1}, x \in S}

Descriptors == SeqsUpTo(Items, MaxItems)

\* ------------------------------------------------------------ bus registry
\* hidbus_add_child: a zeroed hidbus_ivar appended to the tail of sc->tlcs.
hidbus_add_child(ts) ==
    Append(ts, [child |-> Len(ts) + 1, index |-> 0, usage |-> 0,
                open |-> FALSE, intr |-> NULL])

\* hidbus_enumerate_children, one pass through the body of the while loop,
\* for item k: a child for a collection item at level 1; a failed
\* BUS_ADD_CHILD (ok[k] = FALSE) skips the item without consuming an index.
\* index is a uint8_t.
hidbus_enumerate_item(desc, ok, k, ts, index) ==
    IF desc[k].kind # "collection" \/ desc[k].collevel # 1
    THEN [tlcs |-> ts, index |-> index]
    ELSE IF ~ok[k]
    THEN [tlcs |-> ts, index |-> index]
    ELSE LET added == hidbus_add_child(ts)
             n     == Len(added)
             set   == [added EXCEPT ![n].index = index,
                                    ![n].usage = desc[k].usage]
         IN  [tlcs |-> set, index |-> (index + 1) % 256]

\* hidbus_enumerate_children, the while loop over the items lo..hi, in order,
\* from the records ts and the counter index.  The items are taken by halves,
\* the second half once the first is through (its counter is a number, which
\* the test states), so that long descriptors can be evaluated.
RECURSIVE hidbus_enumerate_loop(_, _, _, _, _, _)
hidbus_enumerate_loop(desc, ok, lo, hi, ts, index) ==
    IF lo > hi THEN [tlcs |-> ts, index |-> index]
    ELSE IF lo = hi THEN hidbus_enumerate_item(desc, ok, lo, ts, index)
    ELSE LET mid == (lo + hi) \div 2
             r   == hidbus_enumerate_loop(desc, ok, lo, mid, ts, index)
         IN  IF r.index \in 0..255
             THEN hidbus_enumerate_loop(desc, ok, mid + 1, hi, r.tlcs, r.index)
             ELSE r

\* hidbus_enumerate_children: ENXIO when the descriptor cannot be fetched or
\* no child was created.
hidbus_enumerate_children(have_descr, desc, ok) ==
    IF ~have_descr THEN [error |-> ENXIO, tlcs |-> <<>>]
    ELSE LET r == hidbus_enumerate_loop(desc, ok, 1, Len(desc), <<>>, 0)
         IN  [error |-> IF r.index = 0 THEN ENXIO ELSE 0, tlcs |-> r.tlcs]

\* The aggregate "any subscriber open", derived from the records.
AnyOpen(ts) == \E k \in 1..Len(ts) : ts[k].open

NoCall == [op |-> "none", child |-> 0, preOpen |-> FALSE, issued |-> FALSE,
           descr |-> FALSE, colls |-> <<>>, created |-> 0, error |-> 0,
           unsetups |-> 0]
NoDisp == [buf |-> 0, len |-> 0, locked |-> FALSE, seq |-> 0]

\* The usages of the collection items at level 1 of a descriptor, in the
\* order hid_get_item yields them.
TopLevelCollections(desc, k) ==
    LET IsTopLevel(it) == it.kind = "collection" /\ it.collevel = 1
        sel == SelectSeq(SubSeq(desc, k, Len(desc)), IsTopLevel)
    IN  [j \in 1..Len(sel) |-> sel[j].usage]

\* usbhid_intr_setup / usbhid_intr_unsetup: the transfers and the input
\* buffer are set up, respectively released.
usbhid_intr_setup(n) == n + 1
usbhid_intr_unsetup(n) == n - 1

\* Variant of hidbus_detach that leaves the transport's interrupt set up.
hidbus_detach_no_unsetup(ts, setups) ==
    [tlcs |-> <<>>, intr_setups |-> setups, unsetups |-> 0]

\* hidbus_detach: the children are deleted, HID_INTR_UNSETUP is called once,
\* and every record is removed from sc->tlcs and freed.
hidbus_detach(ts, setups) ==
    [tlcs |-> <<>>, intr_setups |-> usbhid_intr_unsetup(setups), unsetups |-> 1]

\* hidbus_attach: HID_INTR_SETUP, then enumeration; when enumeration fails
\* hidbus_detach is called and ENXIO returned.
hidbus_attach_with(have_descr, desc, ok) ==
    /\ bus_state = "init"
    /\ LET setup == usbhid_intr_setup(intr_setups)
           r == hidbus_enumerate_children(have_descr, desc, ok)
           d == hidbus_detach(r.tlcs, setup)
       IN  /\ bus_state' = IF r.error # 0 THEN "failed" ELSE "attached"
           /\ tlcs' = IF r.error # 0 THEN d.tlcs ELSE r.tlcs
           /\ intr_setups' = IF r.error # 0 THEN d.intr_setups ELSE setup
           /\ last' = [NoCall EXCEPT
                         !.op = "attach",
                         !.descr = have_descr,
                         !.colls = TopLevelCollections(desc, 1),
                         !.created = Len(r.tlcs),
                         !.error = IF r.error # 0 THEN ENXIO ELSE 0,
                         !.unsetups = IF r.error # 0 THEN d.unsetups ELSE 0]
    /\ UNCHANGED <<intr_running, disp, delivered, panic, raw>>
    /\ UNCHANGED <<xfer_vars, iic>>

\* hidbus_attach on any short descriptor, fetched or not, with any outcome of
\* the BUS_ADD_CHILD calls.
hidbus_attach ==
    /\ bus_state = "init"
    /\ \E have_descr \in BOOLEAN, desc \in Descriptors :
          \E ok \in [1..Len(desc) -> BOOLEAN] :
             hidbus_attach_with(have_descr, desc, ok)

\* hidbus_attach on a descriptor of n top-level collections; the BUS_ADD_CHILD
\* of collection failing, if there is one, fails.
hidbus_attach_collections(n, failing) ==
    hidbus_attach_with(TRUE,
        [k \in 1..n |-> [kind |-> "collection", collevel |-> 1, usage |-> 1]],
        [k \in 1..n |-> k # failing])

\* hid_set_intr: the record of child gets the callback.
hid_set_intr_loop(ts, child, intr) ==
    [k \in 1..Len(ts) |->
        IF ts[k].child = child THEN [ts[k] EXCEPT !.intr = intr] ELSE ts[k]]

hid_set_intr(child, intr) ==
    /\ bus_state = "attached" /\ ~panic
    /\ tlcs' = hid_set_intr_loop(tlcs, child, intr)
    /\ last' = [NoCall EXCEPT !.op = "set_intr", !.child = child]
    /\ UNCHANGED <<bus_state, intr_running, intr_setups, disp, delivered, panic, raw>>
    /\ UNCHANGED <<xfer_vars, iic>>

\* usbhid_intr_start / usbhid_intr_stop: usbd_transfer_start/stop of the
\* interrupt-in transfer; both return 0.
usbhid_intr_start(running) == TRUE
usbhid_intr_stop(running) == FALSE

\* Variant of hid_start_loop that leaves the marking of the record to a later
\* time: the flags are accumulated only.
RECURSIVE hid_start_loop_unmarked(_, _, _, _)
hid_start_loop_unmarked(ts, k, child, open) ==
    IF k > Len(ts) THEN [tlcs |-> ts, open |-> open]
    ELSE hid_start_loop_unmarked(ts, k + 1, child, open \/ ts[k].open)

\* Variant of hid_start_loop with the two statements of the loop body
\* exchanged: the flag is accumulated after the record is marked open.
RECURSIVE hid_start_loop_swapped(_, _, _, _)
hid_start_loop_swapped(ts, k, child, open) ==
    IF k > Len(ts) THEN [tlcs |-> ts, open |-> open]
    ELSE LET set == IF ts[k].child = child
                    THEN [ts EXCEPT ![k].open = TRUE] ELSE ts
         IN  hid_start_loop_swapped(set, k + 1, child, open \/ set[k].open)

\* hid_start, the STAILQ_FOREACH: open accumulates each record's flag as it
\* was before the record of child is marked open.
RECURSIVE hid_start_loop(_, _, _, _)
hid_start_loop(ts, k, child, open) ==
    IF k > Len(ts) THEN [tlcs |-> ts, open |-> open]
    ELSE LET o   == open \/ ts[k].open
             set == IF ts[k].child = child
                    THEN [ts EXCEPT ![k].open = TRUE] ELSE ts
         IN  hid_start_loop(set, k + 1, child, o)

\* hid_start: the loop, then HID_INTR_START unless a record was open.
hid_start(child) ==
    /\ bus_state = "attached" /\ ~panic
    /\ LET r == hid_start_loop(tlcs, 1, child, FALSE)
       IN  /\ tlcs' = r.tlcs
           /\ intr_running' = IF r.open THEN intr_running
                              ELSE usbhid_intr_start(intr_running)
           /\ last' = [NoCall EXCEPT !.op = "start", !.child = child,
                                      !.preOpen = AnyOpen(tlcs),
                                      !.issued = ~r.open]
    /\ UNCHANGED <<bus_state, intr_setups, disp, delivered, panic, raw>>
    /\ UNCHANGED <<xfer_vars, iic>>

\* hid_start over a transport whose HID_INTR_START returns start_error: the
\* records are marked in the loop, before the call, and the value of the call
\* is returned as it is.
hid_start_on(child, start_error) ==
    /\ bus_state = "attached" /\ ~panic
    /\ LET r == hid_start_loop(tlcs, 1, child, FALSE)
       IN  /\ tlcs' = r.tlcs
           /\ intr_running' = IF r.open \/ start_error # 0 THEN intr_running
                              ELSE TRUE
           /\ last' = [NoCall EXCEPT !.op = "start", !.child = child,
                                      !.preOpen = AnyOpen(tlcs),
                                      !.issued = ~r.open,
                                      !.error = IF r.open THEN 0
                                                ELSE start_error]
    /\ UNCHANGED <<bus_state, intr_setups, disp, delivered, panic, raw>>
    /\ UNCHANGED <<xfer_vars, iic>>

\* Variant of hid_stop_loop with the two statements of the loop body
\* exchanged: the flag is accumulated before the record is marked closed.
RECURSIVE hid_stop_loop_swapped(_, _, _, _)
hid_stop_loop_swapped(ts, k, child, open) ==
    IF k > Len(ts) THEN [tlcs |-> ts, open |-> open]
    ELSE LET o   == open \/ ts[k].open
             set == IF ts[k].child = child
                    THEN [ts EXCEPT ![k].open = FALSE] ELSE ts
         IN  hid_stop_loop_swapped(set, k + 1, child, o)

\* hid_stop, the STAILQ_FOREACH: the record of child is marked closed first,
\* then open accumulates the flags.
RECURSIVE hid_stop_loop(_, _, _, _)
hid_stop_loop(ts, k, child, open) ==
    IF k > Len(ts) THEN [tlcs |-> ts, open |-> open]
    ELSE LET set == IF ts[k].child = child
                    THEN [ts EXCEPT ![k].open = FALSE] ELSE ts
         IN  hid_stop_loop(set, k + 1, child, open \/ set[k].open)

\* hid_stop: the loop, then HID_INTR_STOP unless a record is still open.
hid_stop(child) ==
    /\ bus_state = "attached" /\ ~panic
    /\ LET r == hid_stop_loop(tlcs, 1, child, FALSE)
       IN  /\ tlcs' = r.tlcs
           /\ intr_running' = IF r.open THEN intr_running
                              ELSE usbhid_intr_stop(intr_running)
           /\ last' = [NoCall EXCEPT !.op = "stop", !.child = child,
                                      !.preOpen = AnyOpen(tlcs),
                                      !.issued = ~r.open]
    /\ UNCHANGED <<bus_state, intr_setups, disp, delivered, panic, raw>>
    /\ UNCHANGED <<xfer_vars, iic>>

\* Variant of hidbus_intr_walk without the test of the open flag: every
\* record that has a callback gets the report.
RECURSIVE hidbus_intr_walk_all(_, _, _, _, _)
hidbus_intr_walk_all(ts, k, buf, len, calls) ==
    IF k > Len(ts) THEN [calls |-> calls, panic |-> FALSE]
    ELSE IF ts[k].intr = NULL
         THEN IF ts[k].open THEN [calls |-> calls, panic |-> TRUE]
              ELSE hidbus_intr_walk_all(ts, k + 1, buf, len, calls)
    ELSE hidbus_intr_walk_all(ts, k + 1, buf, len,
            Append(calls, [child |-> ts[k].child, buf |-> buf, len |-> len]))

\* hidbus_intr, the STAILQ_FOREACH: the calls tlc->intr(tlc->child, buf, len)
\* made, in order; the walk ends at an open record without a callback, where
\* the KASSERT fires.
RECURSIVE hidbus_intr_walk(_, _, _, _, _)
hidbus_intr_walk(ts, k, buf, len, calls) ==
    IF k > Len(ts) THEN [calls |-> calls, panic |-> FALSE]
    ELSE IF ~ts[k].open THEN hidbus_intr_walk(ts, k + 1, buf, len, calls)
    ELSE IF ts[k].intr = NULL THEN [calls |-> calls, panic |-> TRUE]
    ELSE hidbus_intr_walk(ts, k + 1, buf, len,
            Append(calls, [child |-> ts[k].child, buf |-> buf, len |-> len]))

\* The effect of one call hidbus_intr(context, buf, len) made by a context
\* that does (locked) or does not hold the shared mutex.
hidbus_intr(buf, len, locked) ==
    LET r == hidbus_intr_walk(tlcs, 1, buf, len, <<>>)
    IN  /\ delivered' = r.calls
        /\ panic' = r.panic
        /\ UNCHANGED raw
        /\ disp' = [buf |-> buf, len |-> len, locked |-> locked,
                    seq |-> (disp.seq + 1) % 3]
        /\ last' = [NoCall EXCEPT !.op = "intr"]

\* usbhid_intr_rd_callback, USB_ST_TRANSFERRED: the USB stack runs the
\* callback with sc_intr_mtx held; the length is clipped to rdsize, the
\* report handed to the bus, the transfer re-submitted.
usbhid_intr_rd_callback(buf, actlen) ==
    /\ intr_running /\ ~panic
    /\ hidbus_intr(buf, IF actlen > rdsize THEN rdsize ELSE actlen, TRUE)
    /\ UNCHANGED <<bus_state, tlcs, intr_running, intr_setups>>
    /\ UNCHANGED <<xfer_vars, iic>>

\* --------------------------------------- USB synchronous transfer bridge
\* The bridge transfers (enum at usbhid.c:94-100, the interrupt-in one apart).
USBHID_INTR_DT_WR == "intr_wr"
USBHID_CTRL_DT_WR == "ctrl_wr"
USBHID_CTRL_DT_RD == "ctrl_rd"
BridgeXfers == {USBHID_INTR_DT_WR, USBHID_CTRL_DT_WR, USBHID_CTRL_DT_RD}

Threads == 1..NThreads

\* usbd_xfer_max_len(xfer): the buffer size given to the transfer at setup.
usbd_xfer_max_len(idx) == 1

IdleXfer == [st |-> "idle", owner |-> 0, next |-> 0, errs |-> 0]
NoWrite == [owner |-> 0, during |-> 0, error |-> 0, idx |-> USBHID_CTRL_DT_RD,
            st |-> "none", rearmed |-> FALSE, errs |-> 0]
NoExch == [e |-> 0, idx |-> USBHID_CTRL_DT_RD, len |-> 0, own |-> FALSE]
NoRet == [t |-> 0, e |-> 0, error |-> 0, idx |-> USBHID_CTRL_DT_RD, len |-> 0,
          own |-> FALSE, polled |-> FALSE, iters |-> 0, wrote |-> FALSE]
ZeroCtx == [req |-> NULL, buf |-> NULL, len |-> 0, error |-> 0,
            waiters |-> 0, influx |-> FALSE]
NoPoll == [active |-> FALSE, save |-> ZeroCtx, c |-> NoExch,
           looping |-> FALSE, timeout |-> 0, wrote |-> FALSE]

\* hid_in_polling_mode(): the scheduler is stopped or the debugger is active.
hid_in_polling_mode == poll.active

\* The exchange that is between admission and release, 0 when there is none;
\* in polling mode, the exchange of the polling caller.
Admitted == {t \in Threads : pc[t] \in {"io_sleep", "io_woken"}}
CurExch == IF hid_in_polling_mode THEN poll.c.e
           ELSE IF \E t \in Threads : t \in Admitted
           THEN call[CHOOSE t \in Threads : t \in Admitted].e ELSE 0

\* Variant of wakeup_sc_tr that reaches no thread.
wakeup_sc_tr_lost(p) == p

\* wakeup(xfer_ctx): every thread sleeping on &sc->sc_tr becomes runnable.
wakeup_sc_tr(p) ==
    [t \in Threads |-> IF p[t] = "io_sleep" THEN "io_woken" ELSE p[t]]

\* usbd_transfer_start as called at usbhid.c:448: an idle transfer gets its
\* callback scheduled in state USB_ST_SETUP; one whose cancellation is still
\* to be called back is marked started again; otherwise nothing changes.
usbd_transfer_start(x, e) ==
    IF x.st \in {"idle", "done"}
    THEN [st |-> "setup", owner |-> e, next |-> 0, errs |-> 0]
    ELSE IF x.st = "cancel" THEN [x EXCEPT !.st = "cancel_restart", !.next = e]
    ELSE x

\* Variant of usbd_transfer_stop that leaves the transfer as it is.
usbd_transfer_stop_skipped(x) == x

\* usbd_transfer_stop as called at usbhid.c:460: a transfer in flight is
\* closed and its callback will run with USB_ERR_CANCELLED; a transfer not in
\* flight is just marked stopped.
usbd_transfer_stop(x) ==
    IF x.st \in {"idle", "setup", "done"} THEN IdleXfer
    ELSE IF x.st = "inflight" THEN [x EXCEPT !.st = "cancel"]
    ELSE [x EXCEPT !.st = "cancel", !.next = 0]

\* usbhid_sync_xfer, lines 443-448: the context is filled in for exchange c
\* and the transfer started.
sync_xfer_fill(c, tr) ==
    [tr EXCEPT !.buf = c.e,
               !.len = c.len,
               !.req = IF c.idx = USBHID_INTR_DT_WR THEN NULL ELSE c.e,
               !.error = ETIMEDOUT]

\* usbhid_sync_xfer, lines 440-458 in normal mode: influx is set, the context
\* tr filled in, the transfer started, and the caller sleeps on &sc->sc_tr.
sync_xfer_admit(t, c, tr) ==
    /\ sc_tr' = sync_xfer_fill(c, [tr EXCEPT !.influx = TRUE])
    /\ xfer' = [xfer EXCEPT ![c.idx] = usbd_transfer_start(xfer[c.idx], c.e)]
    /\ pc' = [pc EXCEPT ![t] = "io_sleep"]

\* Variant of sync_xfer_may_enter without the test: every caller passes.
sync_xfer_may_enter_always(tr) == TRUE

\* usbhid_sync_xfer, line 436, the test of while (sc->sc_tr.influx): a caller
\* holding the mutex passes only when no exchange is in flux.
sync_xfer_may_enter(tr) == ~tr.influx

\* usbhid_sync_xfer, lines 434-440, first pass of caller t with exchange e:
\* mtx_lock, ++waiters, then either sleep on &sc->sc_tr.waiters or --waiters
\* and admission.
sync_xfer_call(t, idx, len, e) ==
    /\ pc[t] = "idle" /\ ~hid_in_polling_mode
    /\ LET c == [e |-> e, idx |-> idx, len |-> len, own |-> FALSE]
       IN  /\ call' = [call EXCEPT ![t] = c]
           /\ nexch' = e
           /\ IF sync_xfer_may_enter(sc_tr)
              THEN sync_xfer_admit(t, c, sc_tr)
              ELSE /\ sc_tr' = [sc_tr EXCEPT !.waiters = sc_tr.waiters + 1]
                   /\ pc' = [pc EXCEPT ![t] = "wt_sleep"]
                   /\ xfer' = xfer
    /\ UNCHANGED <<ret, cbw, poll>>
    /\ UNCHANGED <<bus_vars, iic>>

\* A call of usbhid_sync_xfer in normal mode, one of the first MaxExch
\* exchanges, which are told apart by their number.
usbhid_sync_xfer_enter(t, idx, len) ==
    /\ nexch < MaxExch
    /\ sync_xfer_call(t, idx, len, nexch + 1)

\* A call of usbhid_sync_xfer in normal mode after the first MaxExch
\* exchanges: callers keep arriving, their exchanges are no longer told apart.
usbhid_sync_xfer_enter_more(t, idx, len) ==
    /\ nexch = MaxExch
    /\ sync_xfer_call(t, idx, len, MaxExch)

\* usbhid_sync_xfer, lines 436-440, a waiter woken by wakeup_one has the
\* mutex again: it tests influx once more.
usbhid_sync_xfer_recheck(t) ==
    /\ pc[t] = "wt_woken" /\ ~hid_in_polling_mode
    /\ IF sync_xfer_may_enter(sc_tr)
       THEN sync_xfer_admit(t, call[t],
                            [sc_tr EXCEPT !.waiters = sc_tr.waiters - 1])
       ELSE /\ pc' = [pc EXCEPT ![t] = "wt_sleep"]
            /\ UNCHANGED <<sc_tr, xfer>>
    /\ UNCHANGED <<call, ret, nexch, cbw, poll>>
    /\ UNCHANGED <<bus_vars, iic>>

\* msleep_sbt at usbhid.c:457 returns because its timeout has passed.
usbhid_sync_xfer_timeout(t) ==
    /\ pc[t] = "io_sleep" /\ ~hid_in_polling_mode
    /\ pc' = [pc EXCEPT ![t] = "io_woken"]
    /\ UNCHANGED <<sc_tr, xfer, call, ret, nexch, cbw, poll>>
    /\ UNCHANGED <<bus_vars, iic>>

\* wakeup_one(&sc->sc_tr.waiters): one of the threads sleeping there, if any.
WaitSleepers == {t \in Threads : pc[t] = "wt_sleep"}

\* Variant of sync_xfer_wakes_waiter that calls wakeup_one for a second waiter
\* only.
sync_xfer_wakes_if_many(tr) == tr.waiters > 1

\* Variant of sync_xfer_wakes_waiter that never calls wakeup_one.
sync_xfer_wakes_nobody(tr) == FALSE

\* usbhid_sync_xfer, line 467: if (sc->sc_tr.waiters != 0).
sync_xfer_wakes_waiter(tr) == tr.waiters # 0

\* usbhid_sync_xfer, lines 460-475: the caller has the mutex again; it stops
\* the transfer, takes the outcome, clears influx, wakes one waiter if the
\* waiter count is not zero, and returns the outcome.
usbhid_sync_xfer_finish(t) ==
    /\ pc[t] = "io_woken" /\ ~hid_in_polling_mode
    /\ xfer' = [xfer EXCEPT ![call[t].idx] = usbd_transfer_stop(xfer[call[t].idx])]
    /\ ret' = [t |-> t, e |-> call[t].e, error |-> sc_tr.error,
               idx |-> call[t].idx, len |-> call[t].len, own |-> call[t].own,
               polled |-> FALSE, iters |-> 0, wrote |-> FALSE]
    /\ call' = [call EXCEPT ![t] = NoExch]
    /\ sc_tr' = [sc_tr EXCEPT !.influx = FALSE]
    /\ IF sync_xfer_wakes_waiter(sc_tr) /\ WaitSleepers # {}
       THEN \E w \in WaitSleepers :
               pc' = [pc EXCEPT ![t] = "idle", ![w] = "wt_woken"]
       ELSE pc' = [pc EXCEPT ![t] = "idle"]
    /\ UNCHANGED <<nexch, cbw, poll>>
    /\ UNCHANGED <<bus_vars, iic>>

\* Variant of sync_xfer_restore that keeps the outcome of the polled exchange.
sync_xfer_restore_but_error(tr, save) == [save EXCEPT !.error = tr.error]

\* usbhid_sync_xfer, line 464: sc->sc_tr = save.
sync_xfer_restore(tr, save) == save

\* Variant of polling_continues without the test of the countdown.
polling_continues_past_zero(timeout, error) == error = ETIMEDOUT

\* usbhid_sync_xfer, line 451, the test of the polling loop.
polling_continues(timeout, error) == timeout > 0 /\ error = ETIMEDOUT

\* usbhid_sync_xfer in polling mode, lines 431-451: the context is saved,
\* filled in, the countdown set and the transfer started; the caller neither
\* takes the mutex nor sleeps, it enters the polling loop.
usbhid_sync_xfer_polling_enter(idx, len) ==
    /\ ~hid_in_polling_mode /\ nexch < MaxExch
    /\ LET c == [e |-> nexch + 1, idx |-> idx, len |-> len, own |-> FALSE]
           tr == sync_xfer_fill(c, sc_tr)
       IN  /\ poll' = [active |-> TRUE, save |-> sc_tr, c |-> c,
                       looping |-> polling_continues(PollTicks, tr.error),
                       timeout |-> PollTicks, wrote |-> FALSE]
           /\ sc_tr' = tr
           /\ xfer' = [xfer EXCEPT ![idx] = usbd_transfer_start(xfer[idx], c.e)]
           /\ nexch' = nexch + 1
    /\ UNCHANGED <<pc, call, ret, cbw>>
    /\ UNCHANGED <<bus_vars, iic>>

\* usbhid_sync_xfer in polling mode, lines 451-455: the end of one iteration
\* of the loop, after usbd_transfer_poll has run the callbacks that were due:
\* DELAY, timeout--, and the test of the loop again.
usbhid_sync_xfer_polling_tick ==
    /\ hid_in_polling_mode /\ poll.looping
    /\ poll' = [poll EXCEPT !.timeout = poll.timeout - 1,
                            !.looping = polling_continues(poll.timeout - 1,
                                                          sc_tr.error)]
    /\ UNCHANGED <<sc_tr, xfer, pc, call, ret, nexch, cbw>>
    /\ UNCHANGED <<bus_vars, iic>>

\* usbhid_sync_xfer in polling mode, lines 460-464 and 475: the polling loop
\* has ended; the transfer is stopped, the outcome taken and the context
\* restored.
usbhid_sync_xfer_polling_finish ==
    /\ hid_in_polling_mode /\ ~poll.looping
    /\ xfer' = [xfer EXCEPT ![poll.c.idx] = usbd_transfer_stop(xfer[poll.c.idx])]
    /\ ret' = [t |-> 0, e |-> poll.c.e, error |-> sc_tr.error,
               idx |-> poll.c.idx, len |-> poll.c.len, own |-> poll.c.own,
               polled |-> TRUE, iters |-> PollTicks - poll.timeout,
               wrote |-> poll.wrote]
    /\ sc_tr' = sync_xfer_restore(sc_tr, poll.save)
    /\ poll' = NoPoll
    /\ UNCHANGED <<pc, call, nexch, cbw>>
    /\ UNCHANGED <<bus_vars, iic>>

\* The tr_exit label of the three bridge callbacks: the outcome is written
\* and, unless in polling mode, the sleeper on the context woken.  owner is
\* the exchange that started the transfer the callback belongs to; an
\* exchange in progress whose own transfer is called back notes it.
tr_exit(idx, st, error, owner) ==
    /\ sc_tr' = [sc_tr EXCEPT !.error = error]
    /\ pc' = IF hid_in_polling_mode THEN pc ELSE wakeup_sc_tr(pc)
    /\ cbw' = [owner |-> owner, during |-> CurExch, error |-> error,
               idx |-> idx, st |-> st, rearmed |-> FALSE,
               errs |-> xfer'[idx].errs]
    /\ call' = [t \in Threads |->
                   IF t \in Admitted /\ call[t].e = owner
                   THEN [call[t] EXCEPT !.own = TRUE] ELSE call[t]]
    /\ poll' = IF hid_in_polling_mode
               THEN [poll EXCEPT !.wrote = TRUE,
                                 !.c.own = (poll.c.own \/ poll.c.e = owner)]
               ELSE poll

\* The callbacks the USB stack may run: any in normal mode, those of the
\* polled transfer, inside the polling loop, in polling mode
\* (usbd_transfer_poll at usbhid.c:452).
callback_may_run(idx) ==
    hid_in_polling_mode => (idx = poll.c.idx /\ poll.looping)

\* A bridge callback in state USB_ST_SETUP (usbhid.c:150-160, 224-242,
\* 267-278), run by the USB stack with the mutex held: ENOBUFS when the
\* length of the context exceeds the transfer's maximum, else the transfer is
\* submitted.
usbhid_xfer_setup_callback(idx) ==
    /\ xfer[idx].st = "setup" /\ callback_may_run(idx)
    /\ IF sc_tr.len > usbd_xfer_max_len(idx)
       THEN /\ xfer' = [xfer EXCEPT ![idx].st = "done"]
            /\ tr_exit(idx, "setup", ENOBUFS, xfer[idx].owner)
       ELSE /\ xfer' = [xfer EXCEPT ![idx].st = "inflight"]
            /\ UNCHANGED <<sc_tr, pc, cbw, call, poll>>
    /\ UNCHANGED <<ret, nexch>>
    /\ UNCHANGED <<bus_vars, iic>>

\* A bridge callback in state USB_ST_TRANSFERRED (usbhid.c:162-164, 244-246,
\* 280-284): the outcome is 0.
usbhid_xfer_transferred_callback(idx) ==
    /\ xfer[idx].st = "inflight" /\ callback_may_run(idx)
    /\ xfer' = [xfer EXCEPT ![idx].st = "done"]
    /\ tr_exit(idx, "transferred", 0, xfer[idx].owner)
    /\ UNCHANGED <<ret, nexch>>
    /\ UNCHANGED <<bus_vars, iic>>

\* A bridge callback in the error state with an error other than
\* USB_ERR_CANCELLED, the errs-th one since the transfer was started: the
\* interrupt-out callback sets the stall flag and submits the transfer again
\* (usbhid.c:166-171); the control callbacks end the exchange with EIO
\* (usbhid.c:248-250, 286-289).
usbhid_xfer_error_callback(idx) ==
    /\ xfer[idx].st = "inflight" /\ callback_may_run(idx)
    /\ xfer[idx].errs < MaxErrs
    /\ IF idx = USBHID_INTR_DT_WR
       THEN /\ xfer' = [xfer EXCEPT ![idx].errs = xfer[idx].errs + 1]
            /\ cbw' = [owner |-> xfer[idx].owner, during |-> CurExch,
                       error |-> sc_tr.error, idx |-> idx, st |-> "error",
                       rearmed |-> TRUE, errs |-> xfer[idx].errs + 1]
            /\ UNCHANGED <<sc_tr, pc, call, poll>>
       ELSE /\ xfer' = [xfer EXCEPT ![idx].st = "done",
                                    ![idx].errs = xfer[idx].errs + 1]
            /\ tr_exit(idx, "error", EIO, xfer[idx].owner)
    /\ UNCHANGED <<ret, nexch>>
    /\ UNCHANGED <<bus_vars, iic>>

\* A bridge callback in the error state with USB_ERR_CANCELLED, which follows
\* a usbd_transfer_stop of a transfer in flight (usbhid.c:172, 250, 289): the
\* outcome is EIO.  A transfer started again in the meantime then gets its
\* USB_ST_SETUP callback.
usbhid_xfer_cancelled_callback(idx) ==
    /\ xfer[idx].st \in {"cancel", "cancel_restart"} /\ callback_may_run(idx)
    /\ xfer' = [xfer EXCEPT ![idx] =
                   IF xfer[idx].st = "cancel" THEN IdleXfer
                   ELSE [st |-> "setup", owner |-> xfer[idx].next, next |-> 0,
                         errs |-> 0]]
    /\ tr_exit(idx, "cancelled", EIO, xfer[idx].owner)
    /\ UNCHANGED <<ret, nexch>>
    /\ UNCHANGED <<bus_vars, iic>>

\* ------------------------------------------------- I2C acquisition engine
\* Values written to the sampling_rate sysctl.
Rates == {-1, 0, 10, IICHID_DEFAULT_SAMPLING_RATE, hz + 1}
\* Lengths a device reports in the 2-byte header of an input report.
Actuals == {0, 2, 3, input_size + 2}

\* iichid_setup_callout: EINVAL below 0, else callout_init_mtx.
iichid_setup_callout(sc) ==
    IF sc.sampling_rate < 0 THEN [sc |-> sc, error |-> EINVAL]
    ELSE [sc |-> [sc EXCEPT !.callout_setup = TRUE], error |-> 0]

\* iichid_reset_callout: callout_reset when the rate is positive and the
\* callout is set up.
iichid_reset_callout(sc) ==
    IF sc.sampling_rate <= 0 THEN [sc |-> sc, error |-> EINVAL]
    ELSE IF sc.callout_setup
         THEN [sc |-> [sc EXCEPT !.callout_pending = TRUE,
                                 !.callout_ticks =
                                     callout_interval(sc.sampling_rate)],
               error |-> 0]
         ELSE [sc |-> sc, error |-> EINVAL]

\* Variant of iichid_teardown_callout that leaves the callout as it is.
iichid_teardown_callout_forgotten(sc) == sc

\* iichid_teardown_callout: callout_stop, callout_setup = false.
iichid_teardown_callout(sc) ==
    [sc EXCEPT !.callout_pending = FALSE, !.callout_setup = FALSE]

\* iichid_setup_interrupt: the IRQ resource is allocated (alloc_ok) and the
\* handler installed (intr_ok).  A failed allocation is logged and 0 is
\* returned; a failed installation releases the resource, leaves the stale
\* pointer in irq_res, and returns the error.
iichid_setup_interrupt(sc, alloc_ok, intr_ok) ==
    IF ~alloc_ok
    THEN [sc |-> [sc EXCEPT !.irq_res = "null", !.irq_cookie = FALSE],
          error |-> 0]
    ELSE IF ~intr_ok
    THEN [sc |-> [sc EXCEPT !.irq_res = "released", !.irq_cookie = FALSE],
          error |-> EINVAL]
    ELSE [sc |-> [sc EXCEPT !.irq_res = "held", !.irq_cookie = TRUE],
          error |-> 0]

\* iichid_teardown_interrupt
iichid_teardown_interrupt(sc) ==
    [sc EXCEPT !.irq_res = "null", !.irq_cookie = FALSE]

\* iichid_set_intr, lines 995-1008: interrupt mode when the hardware has an
\* interrupt line, polling at the default rate when its setup reports an
\* error or when there is no line.
iichid_set_intr(hw_irq, alloc_ok, intr_ok) ==
    /\ iic.state = "uninit" /\ iic.destroy_pc = "none"
    /\ LET s0 == [iic EXCEPT !.state = "ready", !.input_buf = "allocated",
                             !.sampling_rate =
                                 IF hw_irq THEN -1 ELSE IICHID_DEFAULT_SAMPLING_RATE]
           r1 == IF s0.sampling_rate < 0
                 THEN iichid_setup_interrupt(s0, alloc_ok, intr_ok)
                 ELSE [sc |-> s0, error |-> 0]
           s1 == IF r1.error # 0
                 THEN [r1.sc EXCEPT !.sampling_rate = IICHID_DEFAULT_SAMPLING_RATE]
                 ELSE r1.sc
           s2 == IF s1.sampling_rate >= 0
                 THEN iichid_reset_callout(iichid_setup_callout(s1).sc).sc
                 ELSE s1
       IN  iic' = [s2 EXCEPT !.op = [name |-> "set_intr", old |-> 0,
                                     hw_irq |-> hw_irq]]
    /\ UNCHANGED <<bus_vars, xfer_vars>>

\* iichid_sysctl_sampling_rate_handler with a new value, under sc->lock.
iichid_sysctl_sampling_rate_handler(value, alloc_ok, intr_ok) ==
    /\ iic.state = "ready" /\ iic.mtx = "none"
    /\ LET oldval == iic.sampling_rate
           s0 == [iic EXCEPT !.sampling_rate = value]
           s1 == IF oldval < 0 /\ value >= 0
                 THEN iichid_setup_callout(iichid_teardown_interrupt(s0)).sc
                 ELSE IF oldval >= 0 /\ value < 0
                 THEN iichid_setup_interrupt(iichid_teardown_callout(s0),
                                             alloc_ok, intr_ok).sc
                 ELSE s0
           s2 == IF value > 0 THEN iichid_reset_callout(s1).sc ELSE s1
       IN  iic' = IF value = oldval
                  THEN [iic EXCEPT !.op = [name |-> "read", old |-> oldval,
                                           hw_irq |-> FALSE]]
                  ELSE [s2 EXCEPT !.op = [name |-> "write", old |-> oldval,
                                          hw_irq |-> FALSE]]
    /\ UNCHANGED <<bus_vars, xfer_vars>>

\* ---- GET_REPORT over I2C
\* Report types (input, output, feature), report IDs on both sides of 15, and
\* register addresses with and without a high byte.
ReportTypes == 1..3
ReportIds == {0, 5, 14, 15, 20, 255}
Registers == {34, 291}

\* a | b on non-negative integers.
RECURSIVE BitOr(_, _)
BitOr(a, b) ==
    IF a = 0 THEN b
    ELSE IF b = 0 THEN a
    ELSE (IF a % 2 = 1 \/ b % 2 = 1 THEN 1 ELSE 0) + 2 * BitOr(a \div 2, b \div 2)

\* A value stored in a uint8_t.
uint8(x) == x % 256

\* Variant of iichid_get_report_cmd that always builds the 6-byte frame.
iichid_get_report_cmd_short(cmdreg, dtareg, type, id) ==
    <<uint8(cmdreg % 256), uint8(cmdreg \div 256), uint8(BitOr(id, type * 16)),
      I2C_HID_CMD_GET_REPORT, uint8(dtareg % 256), uint8(dtareg \div 256)>>

\* iichid_get_report, lines 746-757: the array cmd[] and the cmdlen bytes of
\* it that are sent.
iichid_get_report_cmd(cmdreg, dtareg, type, id) ==
    LET cmd == <<uint8(cmdreg % 256),
                 uint8(cmdreg \div 256),
                 uint8(IF id >= 15 THEN BitOr(15, type * 16)
                                   ELSE BitOr(id, type * 16)),
                 I2C_HID_CMD_GET_REPORT,
                 uint8(IF id >= 15 THEN id ELSE dtareg % 256),
                 uint8(IF id >= 15 THEN dtareg % 256 ELSE dtareg \div 256),
                 uint8(IF id >= 15 THEN dtareg \div 256 ELSE 0)>>
        cmdlen == IF id >= 15 THEN 7 ELSE 6
    IN  SubSeq(cmd, 1, cmdlen)

\* iichid_get_report, line 758.
report_id_len(id) == IF id >= 15 THEN 2 ELSE 1

\* What a device may answer into tmprep (len + 2 + report_id_len bytes): a
\* declared length, right or wrong, an echoed report ID, a payload.
Responses(len, id) ==
    LET report_len == len + 2 + report_id_len(id)
        echoes == IF report_id_len(id) = 2
                  THEN {<<i, h>> : i \in ReportIds, h \in {0, 1}}
                  ELSE {<<i>> : i \in ReportIds}
        payloads == {[k \in 1..len |-> f[k]] : f \in [1..len -> 0..MaxByte]}
    IN  {<<d % 256, d \div 256>> \o e \o pl :
            d \in {report_len, report_len + 1, 0}, e \in echoes, pl \in payloads}

\* Variant of report_payload that skips the length prefix only.
report_payload_after_prefix(tmprep, idlen, len) == SubSeq(tmprep, 3, 2 + len)

\* iichid_get_report, line 799: the len bytes at tmprep + 2 + report_id_len.
report_payload(tmprep, idlen, len) ==
    SubSeq(tmprep, 3 + idlen, 2 + idlen + len)

\* iichid_get_report, lines 778-804, after the command has been sent: the
\* value returned and the caller's buffer afterwards.
iichid_get_report_result(buf, len, id, err, tmprep) ==
    IF err # 0 THEN [err |-> EIO, buf |-> buf]
    ELSE LET d == IF report_id_len(id) = 2
                  THEN BitOr(tmprep[3], tmprep[4] * 256)
                  ELSE tmprep[3]
         IN  IF d # id THEN [err |-> 1, buf |-> buf]
             ELSE [err |-> 0,
                   buf |-> report_payload(tmprep, report_id_len(id), len)
                           \o SubSeq(buf, len + 1, Len(buf))]

NoReport == [called |-> FALSE, type |-> 0, id |-> 0, len |-> 0, cmdreg |-> 0,
             dtareg |-> 0, cmd |-> <<>>, fetch_err |-> 0, tmprep |-> <<>>,
             buf0 |-> <<>>, err |-> 0, buf |-> <<>>]

\* iichid_get_report on the arguments and the device answer held in
\* iic.report: the command frame is sent and the response read with one
\* iicbus_transfer, which fails (fetch_err # 0) or fills tmprep.
iichid_get_report ==
    /\ ~iic.report.called
    /\ LET a == iic.report
           r == iichid_get_report_result(a.buf0, a.len, a.id, a.fetch_err,
                                         a.tmprep)
       IN  iic' = [iic EXCEPT !.report =
                      [a EXCEPT !.called = TRUE,
                                !.cmd = iichid_get_report_cmd(a.cmdreg, a.dtareg,
                                                              a.type, a.id),
                                !.err = r.err, !.buf = r.buf]]
    /\ UNCHANGED <<bus_vars, xfer_vars>>

\* iichid_intr run as the hardware interrupt handler: the event task is
\* queued.
iichid_intr_irq ==
    /\ iic.state = "ready" /\ iic.irq_cookie
    /\ iic' = [iic EXCEPT !.task_pending = TRUE,
                          !.op = [name |-> "irq", old |-> 0, hw_irq |-> FALSE]]
    /\ UNCHANGED <<bus_vars, xfer_vars>>

\* iichid_intr run by the periodic callout, which takes sc->lock around it.
iichid_intr_callout ==
    /\ iic.state = "ready" /\ iic.callout_pending /\ iic.mtx = "none"
    /\ iic' = [iic EXCEPT !.callout_pending = FALSE, !.task_pending = TRUE,
                          !.op = [name |-> "callout", old |-> 0, hw_irq |-> FALSE]]
    /\ UNCHANGED <<bus_vars, xfer_vars>>

\* Variant of event_task_dispatches that hands over every fetched header.
event_task_dispatches_any(error, actual) == error = 0 /\ actual > 0

\* iichid_event_task, lines 823-831: neither goto out is taken.
event_task_dispatches(error, actual) == error = 0 /\ actual > 2

\* iichid_event_task, lines 822-833: the input report is fetched and, when
\* the fetch succeeded and more than the 2-byte header arrived, handed to
\* sc->intr_handler.  The task has not taken sc->lock yet.
iichid_event_task_fetch(error, actual, buf) ==
    /\ iic.state = "ready" /\ iic.task_pending /\ iic.task_pc = "idle"
    /\ ~iic.tq_blocked
    /\ iic' = [iic EXCEPT !.task_pending = FALSE, !.task_pc = "out",
                          !.fetched_freed = (iic.input_buf = "freed"),
                          !.fetch = [error |-> error, actual |-> actual,
                                     buf |-> buf],
                          !.op = [name |-> "fetch", old |-> 0, hw_irq |-> FALSE]]
    /\ IF event_task_dispatches(error, actual)
       THEN /\ hidbus_intr(buf, actual - 2, iic.mtx = "task")
            /\ UNCHANGED <<bus_state, tlcs, intr_running, intr_setups>>
       ELSE UNCHANGED bus_vars
    /\ UNCHANGED xfer_vars

\* iichid_event_task, line 836: mtx_lock(&sc->lock).
iichid_event_task_lock ==
    /\ iic.task_pc = "out" /\ iic.mtx = "none"
    /\ iic' = [iic EXCEPT !.task_pc = "locked", !.mtx = "task",
                          !.op = [name |-> "lock", old |-> 0, hw_irq |-> FALSE]]
    /\ UNCHANGED <<bus_vars, xfer_vars>>

\* Variants of event_task_should_rearm: the task never arms the callout, the
\* task always arms it.
event_task_rearm_never(sc) == FALSE
event_task_rearm_always(sc) == TRUE

\* iichid_event_task, line 837: the test made under sc->lock.
event_task_should_rearm(sc) == sc.callout_setup /\ sc.sampling_rate > 0

\* iichid_event_task, lines 837-840: the callout is armed again when it is
\* set up and the rate is positive; mtx_unlock.
iichid_event_task_rearm ==
    /\ iic.task_pc = "locked"
    /\ iic' = [iic EXCEPT !.task_pc = "idle", !.mtx = "none",
                          !.callout_pending =
                              IF event_task_should_rearm(iic)
                              THEN TRUE ELSE iic.callout_pending,
                          !.callout_ticks =
                              IF event_task_should_rearm(iic)
                              THEN callout_interval(iic.sampling_rate)
                              ELSE iic.callout_ticks,
                          !.op = [name |-> "rearm", old |-> 0, hw_irq |-> FALSE]]
    /\ UNCHANGED <<bus_vars, xfer_vars>>

\* iichid_destroy, lines 1056-1057: the input buffer is freed when there is
\* one.  Nothing is locked or torn down yet.
iichid_destroy_free ==
    /\ iic.state \in {"uninit", "ready"} /\ iic.destroy_pc = "none"
    /\ iic' = [iic EXCEPT !.destroy_pc = "freed",
                          !.input_buf = IF iic.input_buf = "null"
                                        THEN "null" ELSE "freed",
                          !.op = [name |-> "destroy_free", old |-> 0,
                                  hw_irq |-> FALSE]]
    /\ UNCHANGED <<bus_vars, xfer_vars>>

\* iichid_destroy, lines 1059-1065: sc->lock is taken, the callout and the
\* interrupt are torn down, and when there is a task queue it is blocked.
iichid_destroy_lock ==
    /\ iic.destroy_pc = "freed" /\ iic.mtx = "none"
    /\ LET s == iichid_teardown_interrupt(iichid_teardown_callout(iic))
       IN  iic' = [s EXCEPT !.destroy_pc = "drain", !.mtx = "destroy",
                            !.tq_blocked = (iic.state = "ready"),
                            !.op = [name |-> "destroy_lock", old |-> 0,
                                    hw_irq |-> FALSE]]
    /\ UNCHANGED <<bus_vars, xfer_vars>>

\* iichid_destroy, lines 1066-1070: taskqueue_drain returns once the event
\* task is neither queued nor running; the queue is freed and sc->lock given
\* up.
iichid_destroy_drain ==
    /\ iic.destroy_pc = "drain"
    /\ iic.state = "ready" => (~iic.task_pending /\ iic.task_pc = "idle")
    /\ iic' = [iic EXCEPT !.destroy_pc = "done", !.mtx = "none",
                          !.state = "destroyed",
                          !.op = [name |-> "destroy_drain", old |-> 0,
                                  hw_irq |-> FALSE]]
    /\ UNCHANGED <<bus_vars, xfer_vars>>

\* ---------------------------------------------------------- specifications
\* The children a bus can have: one per descriptor item at most.
Children == 1..MaxItems

IicInit == [state |-> "uninit", sampling_rate |-> 0,
            callout_setup |-> FALSE, callout_pending |-> FALSE,
            callout_ticks |-> 0,
            irq_res |-> "null", irq_cookie |-> FALSE,
            task_pending |-> FALSE, task_pc |-> "idle", mtx |-> "none",
            report |-> NoReport,
            fetch |-> [error |-> 0, actual |-> 0, buf |-> 0],
            input_buf |-> "null", fetched_freed |-> FALSE,
            destroy_pc |-> "none", tq_blocked |-> FALSE,
            op |-> [name |-> "none", old |-> 0, hw_irq |-> FALSE]]

\* ------------------------------------------------ raw-report device node
\* The character device node of src/hidraw.c (struct uhid_softc): the input
\* queue sc_q is modelled by its byte count c_cc, the readers by the threads
\* 1..NThreads that share the one open descriptor.
UHID_CHUNK == 128
UHID_BSIZE == 1020
EWOULDBLOCK == 35
EINTR == 4
EFAULT == 14
\* Largest number of reports the node's callback receives in one behaviour.
MaxReports == 1
\* Largest number of read calls made on the node in one behaviour.
MaxReads == 2
\* Input report sizes hid_report_size() yields, and the room of a read.
Isizes == {1, 200}
Resids == {100, 300}

Min(a, b) == IF a < b THEN a ELSE b

Readers == 1..NThreads

\* A thread outside uhidread.
NoReader ==
    [pc |-> "out", nonblock |-> FALSE, resid |-> 0, r0 |-> 0, n0 |-> 0,
     got |-> 0, chunk |-> 0, error |-> 0, slept |-> FALSE, moved |-> FALSE,
     path |-> "none",
     tmp |-> 0, rep_asleep |-> FALSE, det_asleep |-> FALSE]

\* The zeroed softc, before uhid_attach.
RawInit ==
    [attached |-> FALSE, sc_isize |-> 0, c_cc |-> 0, open |-> FALSE,
     aslp |-> FALSE, immed |-> FALSE, sc_dying |-> FALSE, sc_refcnt |-> 0,
     detach_pc |-> "none", reports |-> 0, reads |-> 0,
     rd |-> [t \in Readers |-> NoReader]]

\* wakeup(&sc->sc_q): every thread asleep on the queue becomes runnable.
wakeup_sc_q(rd) ==
    [t \in Readers |->
        IF rd[t].pc = "asleep" THEN [rd[t] EXCEPT !.pc = "woken"] ELSE rd[t]]

\* uhid_attach: the input report size comes from the report descriptor.
uhid_attach ==
    /\ ~raw.attached
    /\ \E isize \in Isizes :
          raw' = [raw EXCEPT !.attached = TRUE, !.sc_isize = isize]
    /\ UNCHANGED <<bus_vars_but_raw, xfer_vars, iic>>

\* uhidopen: exclusive open; allocates the queue and clears UHID_IMMED.
uhidopen ==
    /\ raw.attached /\ raw.detach_pc # "done"
    /\ ~raw.sc_dying /\ ~raw.open
    /\ raw' = [raw EXCEPT !.open = TRUE, !.immed = FALSE]
    /\ UNCHANGED <<bus_vars_but_raw, xfer_vars, iic>>

\* uhidclose, called on the last close: no thread is inside a read.
uhidclose ==
    /\ raw.open
    /\ \A t \in Readers : raw.rd[t].pc = "out"
    /\ raw' = [raw EXCEPT !.c_cc = 0, !.open = FALSE]
    /\ UNCHANGED <<bus_vars_but_raw, xfer_vars, iic>>

\* uhid_do_ioctl, USB_SET_IMMED with a non-zero or a zero argument.
uhid_do_ioctl_set_immed ==
    /\ raw.open /\ raw.detach_pc # "done"
    /\ \E on \in BOOLEAN, error \in {0, EIO} :
          raw' = IF on /\ error # 0 THEN raw
                 ELSE [raw EXCEPT !.immed = on]
    /\ UNCHANGED <<bus_vars_but_raw, xfer_vars, iic>>

\* b_to_q(buf, sc->sc_isize, &sc->sc_q): the queue holds UHID_BSIZE bytes.
b_to_q(c_cc, n) == Min(c_cc + n, UHID_BSIZE)

\* uhid_intr: the node's callback queues sc_isize bytes and wakes the
\* sleepers when UHID_ASLP is set.
uhid_intr ==
    /\ raw.open /\ raw.detach_pc # "done"
    /\ raw.reports < MaxReports
    /\ raw' = [raw EXCEPT
                  !.c_cc = b_to_q(raw.c_cc, raw.sc_isize),
                  !.reports = raw.reports + 1,
                  !.aslp = FALSE,
                  !.rd = IF raw.aslp
                         THEN [t \in Readers |->
                                 IF raw.rd[t].pc = "asleep"
                                 THEN [raw.rd[t] EXCEPT !.pc = "woken",
                                                        !.rep_asleep = TRUE]
                                 ELSE raw.rd[t]]
                         ELSE [t \in Readers |->
                                 IF raw.rd[t].pc = "asleep"
                                 THEN [raw.rd[t] EXCEPT !.rep_asleep = TRUE]
                                 ELSE raw.rd[t]]]
    /\ UNCHANGED <<bus_vars_but_raw, xfer_vars, iic>>

\* uhid_detach, first statement: sc_dying is set without the mutex.
uhid_detach_dying ==
    /\ raw.attached /\ raw.detach_pc = "none"
    /\ raw' = [raw EXCEPT !.sc_dying = TRUE, !.detach_pc = "dying"]
    /\ UNCHANGED <<bus_vars_but_raw, xfer_vars, iic>>

\* Whether uhid_detach, having decremented sc_refcnt to the given value,
\* wakes the sleepers.
detach_wakes(open, refcnt) == open /\ refcnt >= 0

\* uhid_detach, the section under the mutex.
uhid_detach_wake ==
    /\ raw.detach_pc = "dying"
    /\ LET refcnt == IF raw.open THEN raw.sc_refcnt - 1 ELSE raw.sc_refcnt
           marked == [t \in Readers |->
                        IF raw.rd[t].pc = "asleep"
                        THEN [raw.rd[t] EXCEPT !.det_asleep = TRUE]
                        ELSE raw.rd[t]]
       IN  raw' = [raw EXCEPT
                      !.sc_refcnt = refcnt,
                      !.detach_pc = "woke",
                      !.rd = IF detach_wakes(raw.open, refcnt)
                             THEN wakeup_sc_q(marked) ELSE marked]
    /\ UNCHANGED <<bus_vars_but_raw, xfer_vars, iic>>

\* uhid_detach, destroy_dev: returns once no thread is inside the node.
uhid_detach_destroy_dev ==
    /\ raw.detach_pc = "woke"
    /\ \A t \in Readers : raw.rd[t].pc = "out"
    /\ raw' = [raw EXCEPT !.detach_pc = "done"]
    /\ UNCHANGED <<bus_vars_but_raw, xfer_vars, iic>>

\* uhidread, sc->sc_refcnt++: the load of the unlocked increment.
uhidread_load(t) ==
    /\ raw.open /\ raw.detach_pc # "done"
    /\ raw.rd[t].pc = "out"
    /\ raw.reads < MaxReads
    /\ \E nonblock \in BOOLEAN, resid \in Resids :
          raw' = [raw EXCEPT !.reads = raw.reads + 1, !.rd[t] =
                     [NoReader EXCEPT !.pc = "inc", !.nonblock = nonblock,
                                      !.resid = resid, !.r0 = resid,
                                      !.tmp = raw.sc_refcnt]]
    /\ UNCHANGED <<bus_vars_but_raw, xfer_vars, iic>>

\* uhidread, sc->sc_refcnt++: the store.
uhidread_store(t) ==
    /\ raw.rd[t].pc = "inc"
    /\ raw' = [raw EXCEPT !.sc_refcnt = raw.rd[t].tmp + 1,
                          !.rd[t].pc = "in", !.rd[t].tmp = 0]
    /\ UNCHANGED <<bus_vars_but_raw, xfer_vars, iic>>

\* The number of bytes one pass of the transfer loop takes from the queue.
chunk_length(c_cc, resid) == Min(Min(c_cc, resid), UHID_CHUNK)

\* uhid_do_read from the wait loop on, entered with the mutex held and the
\* given error: sleep on an empty queue, or take one chunk and drop the mutex
\* for uiomove, or return.
uhid_do_read_locked(r, t, error) ==
    IF error # 0
    THEN [r EXCEPT !.aslp = FALSE,
                   !.rd[t].pc = "back", !.rd[t].error = error]
    ELSE IF r.c_cc = 0
    THEN IF r.rd[t].nonblock
         THEN [r EXCEPT !.rd[t].pc = "back", !.rd[t].error = EWOULDBLOCK]
         ELSE [r EXCEPT !.aslp = TRUE,
                        !.rd[t].pc = "asleep", !.rd[t].slept = TRUE]
    ELSE IF r.rd[t].resid > 0
    THEN [r EXCEPT !.c_cc = r.c_cc - chunk_length(r.c_cc, r.rd[t].resid),
                   !.rd[t].pc = "copy", !.rd[t].n0 = r.c_cc,
                   !.rd[t].chunk = chunk_length(r.c_cc, r.rd[t].resid)]
    ELSE [r EXCEPT !.rd[t].pc = "back", !.rd[t].error = 0]

\* uhid_do_read in UHID_IMMED mode: the report is fetched from the device.
uhid_do_read_immed(t) ==
    /\ raw.rd[t].pc = "in" /\ raw.immed
    /\ \E error \in {0, EIO}, fault \in {0, EFAULT} :
          raw' = IF error # 0
                 THEN [raw EXCEPT !.rd[t].pc = "back", !.rd[t].error = EIO,
                                  !.rd[t].path = "immed"]
                 ELSE [raw EXCEPT
                          !.rd[t].pc = "back", !.rd[t].error = fault,
                          !.rd[t].path = "immed",
                          !.rd[t].got =
                              IF fault = 0
                              THEN Min(raw.sc_isize, raw.rd[t].resid) ELSE 0]
    /\ UNCHANGED <<bus_vars_but_raw, xfer_vars, iic>>

\* uhid_do_read: mtx_lock and the first pass of the wait loop.
uhid_do_read_enter(t) ==
    /\ raw.rd[t].pc = "in" /\ ~raw.immed
    /\ raw' = uhid_do_read_locked([raw EXCEPT !.rd[t].path = "queue"], t, 0)
    /\ UNCHANGED <<bus_vars_but_raw, xfer_vars, iic>>

\* mtx_sleep with PCATCH: a signal ends the sleep with an error.
uhid_do_read_signal(t) ==
    /\ raw.rd[t].pc = "asleep"
    /\ raw' = [raw EXCEPT !.rd[t].pc = "woken", !.rd[t].error = EINTR]
    /\ UNCHANGED <<bus_vars_but_raw, xfer_vars, iic>>

\* uhid_do_read: mtx_sleep returns with the mutex held; sc_dying turns the
\* outcome into EIO.
uhid_do_read_woken(t) ==
    /\ raw.rd[t].pc = "woken"
    /\ raw' = uhid_do_read_locked(
                  [raw EXCEPT !.rd[t].error = 0], t,
                  IF raw.sc_dying THEN EIO ELSE raw.rd[t].error)
    /\ UNCHANGED <<bus_vars_but_raw, xfer_vars, iic>>

\* uhid_do_read: uiomove of the chunk without the mutex, then the break that
\* follows the re-lock, the unlock and the return.
uhid_do_read_copy(t) ==
    /\ raw.rd[t].pc = "copy"
    /\ \E fault \in {0, EFAULT} :
          raw' = [raw EXCEPT
                     !.rd[t].pc = "back", !.rd[t].error = fault,
                     !.rd[t].moved = TRUE,
                     !.rd[t].got =
                         IF fault = 0 THEN raw.rd[t].got + raw.rd[t].chunk
                         ELSE raw.rd[t].got,
                     !.rd[t].resid =
                         IF fault = 0 THEN raw.rd[t].resid - raw.rd[t].chunk
                         ELSE raw.rd[t].resid]
    /\ UNCHANGED <<bus_vars_but_raw, xfer_vars, iic>>

\* uhidread, --sc->sc_refcnt: the load.
uhidread_dec_load(t) ==
    /\ raw.rd[t].pc = "back"
    /\ raw' = [raw EXCEPT !.rd[t].pc = "dec", !.rd[t].tmp = raw.sc_refcnt]
    /\ UNCHANGED <<bus_vars_but_raw, xfer_vars, iic>>

\* uhidread, --sc->sc_refcnt: the store, and the return to the caller.
uhidread_return(t) ==
    /\ raw.rd[t].pc = "dec"
    /\ raw' = [raw EXCEPT !.sc_refcnt = raw.rd[t].tmp - 1,
                          !.rd[t] = NoReader]
    /\ UNCHANGED <<bus_vars_but_raw, xfer_vars, iic>>

Init ==
    /\ bus_state = "init"
    /\ tlcs = <<>>
    /\ intr_running = FALSE
    /\ intr_setups = 0
    /\ last = NoCall
    /\ disp = NoDisp
    /\ delivered = <<>>
    /\ panic = FALSE /\ raw = RawInit
    /\ sc_tr = ZeroCtx
    /\ xfer = [i \in BridgeXfers |-> IdleXfer]
    /\ pc = [t \in Threads |-> "idle"]
    /\ call = [t \in Threads |-> NoExch]
    /\ ret = NoRet
    /\ nexch = 0
    /\ cbw = NoWrite
    /\ poll = NoPoll
    /\ iic = IicInit

\* The bus registry over the USB backend's interrupt pipe.
Next ==
    \/ hidbus_attach
    \/ \E c \in Children : c <= Len(tlcs) /\ hid_set_intr(c, c)
    \/ \E c \in Children : c <= Len(tlcs) /\ hid_start(c)
    \/ \E c \in Children : c <= Len(tlcs) /\ hid_stop(c)
    \/ \E b \in 1..MaxReport, n \in 0..MaxActLen : usbhid_intr_rd_callback(b, n)

Spec == Init /\ [][Next]_vars

\* The bus registry over a transport whose interrupt start can fail.
NextStartFail ==
    \/ hidbus_attach
    \/ \E c \in Children : c <= Len(tlcs) /\ hid_set_intr(c, c)
    \/ \E c \in Children, e \in {0, ENXIO} : c <= Len(tlcs) /\ hid_start_on(c, e)
    \/ \E c \in Children : c <= Len(tlcs) /\ hid_stop(c)
    \/ \E b \in 1..MaxReport, n \in 0..MaxActLen : usbhid_intr_rd_callback(b, n)

SpecStartFail == Init /\ [][NextStartFail]_vars

\* Enumeration of long descriptors: up to MaxColls top-level collections, with
\* no BUS_ADD_CHILD failing, the first failing, or the second failing.
NextEnumerate ==
    \E n \in 0..MaxColls, failing \in 0..2 : hidbus_attach_collections(n, failing)

SpecEnumerate == Init /\ [][NextEnumerate]_vars

\* The synchronous transfer bridge with its callers and the USB stack.
NextXfer ==
    \/ \E t \in Threads, idx \in BridgeXfers, len \in 0..MaxLen :
          usbhid_sync_xfer_enter(t, idx, len)
    \/ \E t \in Threads : usbhid_sync_xfer_recheck(t)
    \/ \E t \in Threads : usbhid_sync_xfer_timeout(t)
    \/ \E t \in Threads : usbhid_sync_xfer_finish(t)
    \/ \E idx \in BridgeXfers : usbhid_xfer_setup_callback(idx)
    \/ \E idx \in BridgeXfers : usbhid_xfer_transferred_callback(idx)
    \/ \E idx \in BridgeXfers : usbhid_xfer_error_callback(idx)
    \/ \E idx \in BridgeXfers : usbhid_xfer_cancelled_callback(idx)

SpecXfer == Init /\ [][NextXfer]_vars

\* The bridge under a bus in use: the bus has been attached with two
\* collections, both children have set their callback and child 1 has called
\* hid_start, so the interrupt-in pipe runs.  Children start and stop while
\* exchanges go on; the exchanges are control writes, which have every
\* outcome (0, ENOBUFS, EIO, ETIMEDOUT), of an empty or an oversize report.
InitOpened ==
    /\ bus_state = "attached"
    /\ tlcs = <<[usage |-> 1, child |-> 1, index |-> 0, open |-> TRUE, intr |-> 1],
                [usage |-> 1, child |-> 2, index |-> 1, open |-> FALSE, intr |-> 2]>>
    /\ intr_running = TRUE
    /\ intr_setups = 1
    /\ last = [NoCall EXCEPT !.op = "start", !.child = 1, !.issued = TRUE]
    /\ disp = NoDisp /\ delivered = <<>> /\ panic = FALSE /\ raw = RawInit
    /\ sc_tr = ZeroCtx
    /\ xfer = [i \in BridgeXfers |-> IdleXfer]
    /\ pc = [t \in Threads |-> "idle"] /\ call = [t \in Threads |-> NoExch]
    /\ ret = NoRet /\ nexch = 0 /\ cbw = NoWrite /\ poll = NoPoll
    /\ iic = IicInit

NextOpened ==
    \/ \E t \in Threads, len \in {0, MaxLen} :
          usbhid_sync_xfer_enter(t, USBHID_CTRL_DT_WR, len)
    \/ \E t \in Threads : usbhid_sync_xfer_recheck(t)
    \/ \E t \in Threads : usbhid_sync_xfer_timeout(t)
    \/ \E t \in Threads : usbhid_sync_xfer_finish(t)
    \/ usbhid_xfer_setup_callback(USBHID_CTRL_DT_WR)
    \/ usbhid_xfer_transferred_callback(USBHID_CTRL_DT_WR)
    \/ usbhid_xfer_error_callback(USBHID_CTRL_DT_WR)
    \/ usbhid_xfer_cancelled_callback(USBHID_CTRL_DT_WR)
    \/ \E c \in 1..2 : hid_start(c)
    \/ \E c \in 1..2 : hid_stop(c)

SpecOpened == InitOpened /\ [][NextOpened]_vars

\* The bridge with callers that keep arriving.  Admission and the end of the
\* wait depend neither on the endpoint nor on the length, so the callers use
\* the interrupt-out endpoint, whose callback re-arms on error, with an empty
\* report.  A thread that can run does run: a woken waiter takes the mutex
\* again, a sleep with a timeout ends, and a woken caller completes its call.
NextLive ==
    \/ \E t \in Threads : usbhid_sync_xfer_enter(t, USBHID_INTR_DT_WR, 0)
    \/ \E t \in Threads : usbhid_sync_xfer_enter_more(t, USBHID_INTR_DT_WR, 0)
    \/ \E t \in Threads : usbhid_sync_xfer_recheck(t)
    \/ \E t \in Threads : usbhid_sync_xfer_timeout(t)
    \/ \E t \in Threads : usbhid_sync_xfer_finish(t)
    \/ \E idx \in BridgeXfers : usbhid_xfer_setup_callback(idx)
    \/ \E idx \in BridgeXfers : usbhid_xfer_transferred_callback(idx)
    \/ \E idx \in BridgeXfers : usbhid_xfer_error_callback(idx)
    \/ \E idx \in BridgeXfers : usbhid_xfer_cancelled_callback(idx)

SpecLive ==
    /\ Init /\ [][NextLive]_vars
    /\ \A t \in Threads :
          /\ WF_vars(usbhid_sync_xfer_recheck(t))
          /\ WF_vars(usbhid_sync_xfer_timeout(t))
          /\ WF_vars(usbhid_sync_xfer_finish(t))

\* The bridge with a caller in polling mode besides the normal-mode callers.
\* The polling caller uses every endpoint and every length; the normal-mode
\* callers, whose exchange may be in flux when polling starts, use every
\* endpoint with an empty report.
NextPoll ==
    \/ \E t \in Threads, idx \in BridgeXfers : usbhid_sync_xfer_enter(t, idx, 0)
    \/ \E t \in Threads : usbhid_sync_xfer_recheck(t)
    \/ \E t \in Threads : usbhid_sync_xfer_timeout(t)
    \/ \E t \in Threads : usbhid_sync_xfer_finish(t)
    \/ \E idx \in BridgeXfers : usbhid_xfer_setup_callback(idx)
    \/ \E idx \in BridgeXfers : usbhid_xfer_transferred_callback(idx)
    \/ \E idx \in BridgeXfers : usbhid_xfer_error_callback(idx)
    \/ \E idx \in BridgeXfers : usbhid_xfer_cancelled_callback(idx)
    \/ \E idx \in BridgeXfers, len \in 0..MaxLen :
          usbhid_sync_xfer_polling_enter(idx, len)
    \/ usbhid_sync_xfer_polling_tick
    \/ usbhid_sync_xfer_polling_finish

SpecPoll == Init /\ [][NextPoll]_vars

\* The I2C acquisition engine with its interrupt, timer and event task.
NextIic ==
    \/ \E hw_irq, alloc_ok, intr_ok \in BOOLEAN :
          iichid_set_intr(hw_irq, alloc_ok, intr_ok)
    \/ \E value \in Rates, alloc_ok, intr_ok \in BOOLEAN :
          iichid_sysctl_sampling_rate_handler(value, alloc_ok, intr_ok)
    \/ iichid_intr_irq
    \/ iichid_intr_callout
    \/ \E error \in {0, EIO}, actual \in Actuals, buf \in 1..MaxReport :
          iichid_event_task_fetch(error, actual, buf)
    \/ iichid_event_task_lock
    \/ iichid_event_task_rearm

SpecIic == Init /\ [][NextIic]_vars

\* One run of the event task, whatever the fetch gives.
iichid_event_task_run ==
    \E error \in {0, EIO}, actual \in Actuals, buf \in 1..MaxReport :
       iichid_event_task_fetch(error, actual, buf)

\* The engine with its clock and its taskqueue thread: an armed callout
\* fires, a queued task runs, the task gets sc->lock and finishes.  Writes
\* to the sysctl and hardware interrupts come as they please.
SpecIicLive ==
    /\ Init /\ [][NextIic]_vars
    /\ WF_vars(iichid_intr_callout)
    /\ WF_vars(iichid_event_task_run)
    /\ WF_vars(iichid_event_task_lock)
    /\ WF_vars(iichid_event_task_rearm)

\* The engine up to and including its destruction.  The clock, the taskqueue
\* thread and the thread in iichid_destroy run whenever they can.
NextDestroy ==
    \/ NextIic
    \/ iichid_destroy_free
    \/ iichid_destroy_lock
    \/ iichid_destroy_drain

SpecDestroy ==
    /\ Init /\ [][NextDestroy]_vars
    /\ WF_vars(iichid_intr_callout)
    /\ WF_vars(iichid_event_task_run)
    /\ WF_vars(iichid_event_task_lock)
    /\ WF_vars(iichid_event_task_rearm)
    /\ WF_vars(iichid_destroy_lock)
    /\ WF_vars(iichid_destroy_drain)

\* GET_REPORT calls on the I2C backend: every report type, IDs on both sides
\* of 15, and every answer of the device.  The caller's buffer holds 255s.
ReportCall(cmdreg, dtareg, len, type, id, err, tmprep) ==
    [NoReport EXCEPT !.type = type, !.id = id, !.len = len,
                     !.cmdreg = cmdreg, !.dtareg = dtareg,
                     !.fetch_err = err, !.tmprep = tmprep,
                     !.buf0 = [k \in 1..len |-> 255],
                     !.buf = [k \in 1..len |-> 255]]

InitReport ==
    /\ bus_state = "init" /\ tlcs = <<>> /\ intr_running = FALSE
    /\ intr_setups = 0 /\ last = NoCall /\ disp = NoDisp /\ delivered = <<>>
    /\ panic = FALSE /\ raw = RawInit /\ sc_tr = ZeroCtx
    /\ xfer = [i \in BridgeXfers |-> IdleXfer]
    /\ pc = [t \in Threads |-> "idle"] /\ call = [t \in Threads |-> NoExch]
    /\ ret = NoRet /\ nexch = 0 /\ cbw = NoWrite /\ poll = NoPoll
    /\ \E cmdreg \in Registers, dtareg \in Registers, len \in 0..MaxRepLen,
          type \in ReportTypes, id \in ReportIds, err \in {0, EIO} :
          \E tmprep \in Responses(len, id) :
             iic = [IicInit EXCEPT !.report =
                       ReportCall(cmdreg, dtareg, len, type, id, err, tmprep)]

NextReport == iichid_get_report

SpecReport == InitReport /\ [][NextReport]_vars


\* ------------------------------------------------------------------ claims

\* The raw-report device node: attach, open and close, the callback, the
\* readers and detach.
uhidread_step(t) ==
    \/ uhidread_load(t)
    \/ uhidread_store(t)
    \/ uhid_do_read_immed(t)
    \/ uhid_do_read_enter(t)
    \/ uhid_do_read_woken(t)
    \/ uhid_do_read_copy(t)
    \/ uhidread_dec_load(t)
    \/ uhidread_return(t)

NextRaw ==
    \/ uhid_attach
    \/ uhidopen
    \/ uhidclose
    \/ uhid_do_ioctl_set_immed
    \/ uhid_intr
    \/ uhid_detach_dying
    \/ uhid_detach_wake
    \/ uhid_detach_destroy_dev
    \/ \E t \in Readers : uhidread_step(t)
    \/ \E t \in Readers : uhid_do_read_signal(t)

SpecRaw == Init /\ [][NextRaw]_vars

\* The same, with the scheduler running every thread that can run: a reader
\* that is not asleep takes its next step, and a detach that has begun goes
\* on. Reports, signals, opens, closes and new reads are not forced.
SpecRawLive ==
    /\ Init /\ [][NextRaw]_vars
    /\ \A t \in Readers :
          /\ WF_vars(uhidread_store(t))
          /\ WF_vars(uhid_do_read_immed(t))
          /\ WF_vars(uhid_do_read_enter(t))
          /\ WF_vars(uhid_do_read_woken(t))
          /\ WF_vars(uhid_do_read_copy(t))
          /\ WF_vars(uhidread_dec_load(t))
          /\ WF_vars(uhidread_return(t))
    /\ WF_vars(uhid_detach_wake)
    /\ WF_vars(uhid_detach_destroy_dev)

\* C1: hid_start calls the transport's interrupt-start operation exactly when
\* no subscriber record had its open flag set immediately before the call.
C1_StartIffNoneOpenBefore ==
    last.op = "start" => (last.issued <=> ~last.preOpen)

\* A hid_start made while another subscriber is open: no start call issued.
C1_Witness ==
    /\ last.op = "start" /\ last.preOpen /\ ~last.issued
    /\ Len(tlcs) >= 2 /\ \A k \in 1..Len(tlcs) : tlcs[k].open

\* C2: hid_stop calls the transport's interrupt-stop operation only on the
\* transition from "at least one subscriber open" to "no subscriber open";
\* in particular a hid_stop on a bus where no subscriber was open before the
\* call issues no stop call.
C2_StopOnlyOnLastClose ==
    (last.op = "stop" /\ last.issued) => (last.preOpen /\ ~AnyOpen(tlcs))

\* C3: the interrupt pipe of the transport is running if and only if at
\* least one subscriber record has its open flag set.
C3_RunningIffAnyOpen ==
    bus_state = "attached" => (intr_running <=> AnyOpen(tlcs))

\* One of two open subscribers has been closed: the pipe keeps running.
C3_Witness ==
    /\ last.op = "stop" /\ last.preOpen /\ ~last.issued
    /\ AnyOpen(tlcs) /\ intr_running /\ ~tlcs[last.child].open

\* C4: a dispatch invokes the callback of every open subscriber exactly once,
\* in subscriber-list order, with the buffer and length of the dispatch, and
\* the callback of no closed subscriber.
C4_DispatchReachesExactlyTheOpen ==
    (last.op = "intr" /\ ~panic) =>
        /\ \A k \in 1..Len(tlcs) :
              Cardinality({i \in 1..Len(delivered) :
                              delivered[i].child = tlcs[k].child})
                = IF tlcs[k].open THEN 1 ELSE 0
        /\ \A i, j \in 1..Len(delivered) :
              i < j => delivered[i].child < delivered[j].child
        /\ \A i \in 1..Len(delivered) :
              delivered[i].buf = disp.buf /\ delivered[i].len = disp.len

\* Two subscribers, both with a callback, only the second one open: the
\* report reaches the callback of the second one alone.
C4_Witness ==
    /\ last.op = "intr" /\ ~panic /\ Len(tlcs) = 2
    /\ tlcs[1].intr # NULL /\ ~tlcs[1].open /\ tlcs[2].open
    /\ Len(delivered) = 1 /\ delivered[1].child = 2 /\ disp.len > 0

\* C5: in normal mode at most one caller of usbhid_sync_xfer is between
\* admission (influx set) and release (influx cleared) at any time, also
\* while the admitted caller sleeps with the mutex released.
C5_SingleFlight ==
    /\ Cardinality(Admitted) <= 1
    /\ Admitted # {} => sc_tr.influx

\* One caller sleeps admitted, waiting for completion, while another caller
\* has arrived and sleeps as a waiter.
C5_Witness ==
    \E t, u \in Threads :
        /\ pc[t] = "io_sleep" /\ pc[u] = "wt_sleep"
        /\ sc_tr.influx /\ sc_tr.waiters = 1

\* C6: an exchange runs with its own request, buffer and length, and no
\* completion or cancellation callback of an earlier exchange writes the
\* outcome field or wakes the caller of a later exchange.
C6_NoCallbackOfEarlierExchange ==
    /\ cbw.during # 0 => cbw.owner = cbw.during
    /\ \A t \in Admitted :
          /\ sc_tr.buf = call[t].e /\ sc_tr.len = call[t].len
          /\ sc_tr.req = IF call[t].idx = USBHID_INTR_DT_WR THEN NULL ELSE call[t].e

\* Event sources of the I2C engine.
InterruptRegistered == iic.irq_cookie
TimerActive == iic.callout_setup \/ iic.callout_pending

\* C7: every invocation of the dispatch callback by an acquisition engine
\* happens while the shared lock is held by the invoking context.
C7_DispatchUnderLock ==
    last.op = "intr" => disp.locked

\* C8: the hardware interrupt handler being registered and the periodic timer
\* being set up or armed never hold at the same time.
C8_NeverBothSources ==
    ~(InterruptRegistered /\ TimerActive)

\* A write has switched the engine from polling to interrupt mode while an
\* event task queued by the timer was still to run.
C8_Witness ==
    /\ iic.op.name = "write" /\ iic.op.old > 0 /\ iic.sampling_rate < 0
    /\ InterruptRegistered /\ ~TimerActive /\ iic.task_pending

\* C9: after every completed sampling-rate write that changes the mode
\* (polling to interrupt, interrupt to polling) exactly one event source is
\* active: the registered interrupt or the armed timer.
C9_ExactlyOneSourceAfterSwitch ==
    (/\ iic.op.name = "write"
     /\ \/ iic.op.old > 0 /\ iic.sampling_rate < 0
        \/ iic.op.old < 0 /\ iic.sampling_rate > 0)
    => (InterruptRegistered /\ ~iic.callout_pending)
       \/ (~InterruptRegistered /\ iic.callout_pending)

\* C10: at initialisation with a hardware interrupt line, whenever interrupt
\* setup does not end with a registered handler, the engine polls: the rate
\* is the default rate and the timer is set up and armed.
C10_FallbackToPolling ==
    (iic.op.name = "set_intr" /\ iic.op.hw_irq /\ ~InterruptRegistered)
    => /\ iic.sampling_rate = IICHID_DEFAULT_SAMPLING_RATE
       /\ iic.callout_setup /\ iic.callout_pending

\* C11: after a write of a negative or a zero value to the sampling-rate
\* control the engine is in interrupt mode (timer torn down, interrupt
\* handler registered); after a write of a positive value it polls (timer set
\* up and armed, interrupt handler torn down).
C11_WriteSelectsMode ==
    iic.op.name = "write" =>
        IF iic.sampling_rate <= 0
        THEN InterruptRegistered /\ ~TimerActive
        ELSE ~InterruptRegistered /\ iic.callout_setup /\ iic.callout_pending

\* C12: for a report descriptor with N >= 1 collections at level 1,
\* enumeration creates exactly N subscriber records, in descriptor order, with
\* the indices 0..N-1 and each record's usage that of its collection, and
\* succeeds; for a descriptor without such a collection it returns ENXIO.
C12_OneRecordPerCollection ==
    (last.op = "attach" /\ last.descr) =>
        IF Len(last.colls) >= 1
        THEN /\ last.error = 0
             /\ Len(tlcs) = Len(last.colls)
             /\ \A k \in 1..Len(tlcs) :
                   tlcs[k].index = k - 1 /\ tlcs[k].usage = last.colls[k]
        ELSE last.error = ENXIO

\* C13: when enumeration fails during attach, hidbus_attach returns ENXIO,
\* the subscriber list is empty and the interrupt setup made earlier in
\* attach has been undone by exactly one unsetup call.
C13_FailedAttachLeavesNothing ==
    bus_state = "failed" =>
        /\ last.error = ENXIO
        /\ tlcs = <<>>
        /\ last.unsetups = 1
        /\ intr_setups = 0

\* An attach whose descriptor has a collection at level 1 for which no child
\* could be added: enumeration has failed and attach has cleaned up.
C13_Witness ==
    /\ bus_state = "failed" /\ last.op = "attach"
    /\ last.descr /\ Len(last.colls) >= 1
    /\ last.error = ENXIO /\ intr_setups = 0

\* C14: with threads that run when they can and exchanges that all end, every
\* caller that has registered as a waiter in usbhid_sync_xfer is eventually
\* admitted, also when new callers keep arriving.
C14_WaiterEventuallyAdmitted ==
    \A t \in Threads : (pc[t] = "wt_sleep") ~> (pc[t] = "io_sleep")

C15_OversizeIsENOBUFS ==
    /\ \A idx \in BridgeXfers, t \in Threads :
          (t \in Admitted /\ call[t].idx = idx /\ xfer[idx].owner = call[t].e
           /\ call[t].len > usbd_xfer_max_len(idx))
          => xfer[idx].st # "inflight"
    /\ (ret.e # 0 /\ ret.len > usbd_xfer_max_len(ret.idx)
        /\ ret.error # ETIMEDOUT)
       => ret.error = ENOBUFS

\* C16: usbhid_sync_xfer returns ETIMEDOUT if and only if no callback of the
\* exchange's own transfer has delivered an outcome before the return.
C16_TimeoutIffNoOwnCompletion ==
    ret.e # 0 => (ret.error = ETIMEDOUT <=> ~ret.own)

\* C18: on every bridge endpoint the first transfer error that is not a
\* cancellation re-arms the transfer instead of ending the exchange, and a
\* cancellation yields EIO.
C18_ErrorRearmsCancelIsEIO ==
    /\ (cbw.st = "error" /\ cbw.errs = 1) => cbw.rearmed
    /\ cbw.st = "cancelled" => (cbw.error = EIO /\ ~cbw.rearmed)

\* C19: a transfer that was re-armed after an error and fails again with an
\* error that is not a cancellation ends the exchange with EIO; it is not
\* re-armed a second time.
C19_AtMostOneRetry ==
    (cbw.st = "error" /\ cbw.errs >= 2) => (~cbw.rearmed /\ cbw.error = EIO)

\* C20: a polling-mode exchange returns with every field of the shared
\* transfer context equal to its value at the entry of the call.
C20_PollingRestoresContext ==
    [][(hid_in_polling_mode /\ ~hid_in_polling_mode') => sc_tr' = poll.save]_vars

\* A polling-mode exchange has completed and returned 0 while a normal-mode
\* exchange is in flux, whose context still shows its own pending outcome.
C20_Witness ==
    /\ ret.polled /\ ret.error = 0 /\ ret.own /\ ~hid_in_polling_mode
    /\ sc_tr.influx /\ sc_tr.error = ETIMEDOUT /\ sc_tr.buf # ret.e
    /\ \E t \in Threads : pc[t] = "io_sleep" /\ call[t].e = sc_tr.buf

\* C21: a polling-mode exchange changes no thread's sleep state (it neither
\* sleeps nor wakes anyone), runs at most as many
\* iterations of its polling loop as the countdown starts with, and returns
\* the outcome a callback has delivered if there is one, else ETIMEDOUT.
C21_PollingIsBounded ==
    /\ [][hid_in_polling_mode => pc' = pc]_vars
    /\ [](hid_in_polling_mode =>
            /\ poll.timeout \in 0..PollTicks
            /\ poll.looping => poll.timeout > 0)
    /\ [](ret.polled =>
            /\ ret.iters <= PollTicks
            /\ ret.error = ETIMEDOUT <=> ~ret.wrote
            /\ ~ret.wrote => ret.iters = PollTicks)

\* A polling-mode exchange has run its countdown down to zero without a
\* callback and has returned ETIMEDOUT.
C21_Witness ==
    /\ ret.polled /\ ret.error = ETIMEDOUT /\ ret.iters = PollTicks
    /\ ~ret.wrote /\ ~hid_in_polling_mode

\* C22: the GET_REPORT command frame is, for ID < 15, the 6 bytes command
\* register (low, high), ID | type << 4, opcode, data register (low, high);
\* for ID >= 15 the 7 bytes command register (low, high), 0xF | type << 4,
\* opcode, ID, data register (low, high).
C22_CommandFrame ==
    LET r == iic.report
    IN  r.called =>
          r.cmd = IF r.id < 15
                  THEN <<r.cmdreg % 256, r.cmdreg \div 256, r.id + 16 * r.type,
                         I2C_HID_CMD_GET_REPORT,
                         r.dtareg % 256, r.dtareg \div 256>>
                  ELSE <<r.cmdreg % 256, r.cmdreg \div 256, 15 + 16 * r.type,
                         I2C_HID_CMD_GET_REPORT, r.id,
                         r.dtareg % 256, r.dtareg \div 256>>

\* A feature report with ID 20 has been asked for through registers with a
\* high byte: the frame has 7 bytes and carries the ID in its fifth byte.
C22_Witness ==
    /\ iic.report.called /\ iic.report.id = 20 /\ iic.report.type = 3
    /\ iic.report.cmdreg > 255 /\ iic.report.dtareg > 255
    /\ Len(iic.report.cmd) = 7 /\ iic.report.cmd[5] = 20

\* The report ID a response echoes, as the 1 or 2 bytes after the prefix.
EchoedId(r) ==
    IF r.id >= 15 THEN r.tmprep[3] + 256 * r.tmprep[4] ELSE r.tmprep[3]

\* C23: when the report ID echoed in the response differs from the requested
\* ID, iichid_get_report fails with EIO and copies nothing into the caller's
\* buffer.
C23_IdMismatchIsEIO ==
    LET r == iic.report
    IN  (r.called /\ r.fetch_err = 0 /\ EchoedId(r) # r.id) =>
            (r.err = EIO /\ r.buf = r.buf0)

\* C24: when the length declared in the response differs from the expected
\* length but the echoed ID matches, iichid_get_report returns 0 and the
\* caller's buffer holds the len bytes that follow the prefix and the ID.
C24_LengthMismatchTolerated ==
    LET r == iic.report
        idlen == IF r.id >= 15 THEN 2 ELSE 1
    IN  (/\ r.called /\ r.fetch_err = 0 /\ EchoedId(r) = r.id
         /\ r.tmprep[1] + 256 * r.tmprep[2] # r.len + 2 + idlen)
        => /\ r.err = 0
           /\ Len(r.buf) = r.len
           /\ \A k \in 1..r.len : r.buf[k] = r.tmprep[2 + idlen + k]

\* A response to a request for ID 20 declares length 0, echoes the ID in two
\* bytes and carries a non-zero payload byte, which has been copied.
C24_Witness ==
    /\ iic.report.called /\ iic.report.id = 20 /\ iic.report.len >= 1
    /\ iic.report.tmprep[1] = 0 /\ iic.report.tmprep[2] = 0
    /\ iic.report.err = 0 /\ iic.report.buf[1] = 1
    /\ iic.report.buf # iic.report.buf0

\* C25: the fetch step of a run of the I2C event task calls the bus's
\* dispatch exactly when the fetch succeeded and the header reports a length
\* greater than 2, once, with the report after the header and the reported
\* length minus 2; the other steps of the run call no dispatch.
C25_DispatchIffPayload ==
    [][iic'.task_pc # iic.task_pc =>
         IF iic.task_pc = "idle"
         THEN LET f == iic'.fetch
              IN  /\ disp'.seq # disp.seq <=> (f.error = 0 /\ f.actual > 2)
                  /\ disp'.seq # disp.seq =>
                        /\ disp'.seq = (disp.seq + 1) % 3
                        /\ disp'.len = f.actual - 2
                        /\ disp'.buf = f.buf
                  /\ disp'.seq = disp.seq => disp' = disp
         ELSE disp' = disp]_vars

\* A second report with one payload byte has just been fetched and handed on.
C25_Witness ==
    /\ iic.op.name = "fetch" /\ iic.fetch.error = 0 /\ iic.fetch.actual = 3
    /\ disp.seq = 2 /\ disp.len = 1 /\ disp.buf = iic.fetch.buf

\* The engine polls at a positive rate.
PollingAtPositiveRate == iic.state = "ready" /\ iic.sampling_rate > 0

\* C26: in polling mode with a positive sampling rate the last step of every
\* run of the event task leaves the periodic callout armed, and if the engine
\* stays in that mode from some point on, fetches occur infinitely often.
C26_PollingNeverStops ==
    /\ [][(iic.task_pc = "locked" /\ iic'.task_pc = "idle"
           /\ PollingAtPositiveRate)
          => iic'.callout_pending]_vars
    /\ (<>[]PollingAtPositiveRate => []<><<iichid_event_task_run>>_vars)

\* A run of the task whose fetch failed has armed the callout again.
C26_Witness ==
    /\ PollingAtPositiveRate /\ iic.op.name = "rearm" /\ iic.callout_pending
    /\ iic.fetch.error = EIO /\ iic.task_pc = "idle" /\ ~iic.task_pending

\* C29: once a write to the sampling rate has switched the engine from
\* polling to interrupt mode, the last step of a run of the event task, made
\* under sc->lock, leaves the periodic callout unarmed.
C29_NoRearmAfterSwitch ==
    [][(iic.task_pc = "locked" /\ iic'.task_pc = "idle"
        /\ iic.sampling_rate < 0)
       => ~iic'.callout_pending]_vars

\* The engine is in interrupt mode without an installed handler, so the task
\* that has just finished was queued before the switch away from polling, and
\* the callout is not armed.
C29_Witness ==
    /\ iic.state = "ready" /\ iic.sampling_rate < 0 /\ ~iic.irq_cookie
    /\ iic.op.name = "rearm" /\ iic.task_pc = "idle"
    /\ ~iic.callout_pending /\ ~iic.callout_setup

\* C27: every subscriber record whose open flag is set has a callback, and
\* no dispatch has found an open record without one.
C27_OpenHasCallback ==
    /\ \A k \in 1..Len(tlcs) : tlcs[k].open => tlcs[k].intr # NULL
    /\ ~panic

\* C28: the step in which a normal-mode exchange returns leaves the in-flux
\* flag false, wakes exactly one sleeping waiter when the waiter count is not
\* zero (a waiter is then awake), wakes none otherwise, returns one of 0,
\* ENOBUFS, EIO, ETIMEDOUT, and changes neither the subscriber records nor the
\* running state of the interrupt-in pipe.
C28_ReturnReleasesAndKeepsBus ==
    [][\A t \in Threads :
         (pc[t] = "io_woken" /\ pc'[t] = "idle") =>
            LET woken == {w \in Threads :
                            pc[w] = "wt_sleep" /\ pc'[w] = "wt_woken"}
            IN  /\ ~sc_tr'.influx
                /\ Cardinality(woken) =
                      IF sc_tr.waiters # 0 /\ (\E w \in Threads : pc[w] = "wt_sleep")
                      THEN 1 ELSE 0
                /\ sc_tr.waiters # 0 => \E w \in Threads : pc'[w] = "wt_woken"
                /\ ret'.t = t /\ ret'.error \in {0, ENOBUFS, EIO, ETIMEDOUT}
                /\ tlcs' = tlcs /\ intr_running' = intr_running]_vars

\* An exchange has returned ENOBUFS and woken the waiter, while child 1 is
\* open and the interrupt-in pipe runs.
C28_Witness ==
    /\ ret.t # 0 /\ ~ret.polled /\ ret.error = ENOBUFS /\ pc[ret.t] = "idle"
    /\ ~sc_tr.influx /\ sc_tr.waiters = 1
    /\ \E w \in Threads : pc[w] = "wt_woken"
    /\ tlcs[1].open /\ intr_running

\* C30: no caller sleeps in msleep_sbt while an outcome is already in the
\* context, and the SETUP step that rejects an oversize report with ENOBUFS
\* leaves no caller asleep: the caller returns on the wakeup, not on the
\* timeout.
C30_NoLostWakeup ==
    /\ [](\A t \in Threads : pc[t] = "io_sleep" => sc_tr.error = ETIMEDOUT)
    /\ [][(\E idx \in BridgeXfers :
              /\ xfer[idx].st = "setup" /\ xfer'[idx].st = "done"
              /\ sc_tr'.error = ENOBUFS)
          => \A t \in Threads : pc'[t] # "io_sleep"]_vars

\* The SETUP step of an exchange's own transfer has written ENOBUFS and the
\* caller of that exchange is awake with the outcome in the context.
C30_Witness ==
    /\ cbw.st = "setup" /\ cbw.error = ENOBUFS /\ sc_tr.error = ENOBUFS
    /\ \E t \in Threads :
          pc[t] = "io_woken" /\ call[t].e = cbw.owner /\ call[t].own

\* The callers inside the admission section of usbhid_sync_xfer: after
\* ++waiters and before --waiters.
InAdmission == {t \in Threads : pc[t] \in {"wt_sleep", "wt_woken"}}

\* C31: in normal mode the waiter count is never negative and equals the
\* number of callers inside the admission section, and when no exchange is in
\* flux and callers are inside the section, one of them is awake.
C31_WaitersCounted ==
    /\ sc_tr.waiters >= 0
    /\ sc_tr.waiters = Cardinality(InAdmission)
    /\ (~sc_tr.influx /\ InAdmission # {}) =>
          \E t \in InAdmission : pc[t] = "wt_woken"

\* An exchange has returned and cleared in-flux while a caller was counted
\* as waiting: that caller has been woken and has not run yet.
C31_Witness ==
    /\ ~sc_tr.influx /\ sc_tr.waiters = 1 /\ ret.t # 0 /\ pc[ret.t] = "idle"
    /\ \E t \in Threads : pc[t] = "wt_woken" /\ call[t].e # ret.e

\* C32: a call of iichid_destroy always comes to its end.
C32_DestroyTerminates ==
    (iic.destroy_pc # "none") ~> (iic.destroy_pc = "done")

\* C33: once iichid_destroy has freed the input buffer, no event source is
\* live, no event task is queued or running, and no fetch has used the freed
\* buffer.
C33_NoUseAfterFree ==
    iic.input_buf = "freed" =>
        /\ ~iic.callout_pending /\ ~iic.irq_cookie
        /\ ~iic.task_pending /\ iic.task_pc = "idle"
        /\ ~iic.fetched_freed

\* C34: after hid_start the record of the child is marked open also when the
\* transport's start returned an error and the engine does not run, and a
\* hid_start made while a record is open returns 0, calls no transport start
\* and leaves the engine as it is.
C34_FailedStartStaysOpen ==
    /\ [](last.op = "start" =>
            \A k \in 1..Len(tlcs) : tlcs[k].child = last.child => tlcs[k].open)
    /\ [][(last'.op = "start" /\ last' # last /\ AnyOpen(tlcs)) =>
            /\ last'.error = 0 /\ ~last'.issued
            /\ intr_running' = intr_running]_vars
    /\ [][(last'.op = "start" /\ last'.error # 0) =>
            intr_running' = intr_running]_vars

\* After a failed first hid_start, a second hid_start on the other child has
\* returned 0 without a start call: both are open and the engine does not run.
C34_Witness ==
    /\ last.op = "start" /\ last.child = 2 /\ last.preOpen /\ ~last.issued
    /\ last.error = 0 /\ ~intr_running
    /\ Len(tlcs) = 2 /\ tlcs[1].open /\ tlcs[2].open
    /\ tlcs[1].intr # NULL /\ tlcs[2].intr # NULL

\* C35: the length the I2C event task hands to dispatch is at most the room
\* behind the pointer it hands over, input_size - 2.
C35_DispatchWithinBuffer ==
    disp.len <= input_size - 2

\* C36: after a successful enumeration the indices of the records are
\* pairwise distinct, different from the index reserved for children
\* registered by name, and contiguous from 0 also when the child of a
\* collection could not be added; an enumeration that created a child does
\* not end with the error for "no collections".
C36_IndicesDistinct ==
    (last.op = "attach" /\ last.descr) =>
        /\ Cardinality({tlcs[k].index : k \in 1..Len(tlcs)}) = Len(tlcs)
        /\ \A k \in 1..Len(tlcs) :
              tlcs[k].index # UHID_INDEX /\ tlcs[k].index = k - 1
        /\ last.created > 0 => last.error = 0

\* C37: while the periodic callout is armed at a positive sampling rate, its
\* interval is hz / rate in whole ticks, and that is at least one tick.
C37_IntervalAtLeastOneTick ==
    (iic.callout_pending /\ iic.sampling_rate > 0) =>
        /\ iic.callout_ticks = hz \div iic.sampling_rate
        /\ iic.callout_ticks >= 1

\* A thread whose read on the node has come back from uhid_do_read.
ReadReturned(t) == raw.rd[t].pc \in {"back", "dec"}

\* C38: a read that takes queued input with N bytes queued and room for R
\* bytes returns min(N, R) bytes, in chunks of at most UHID_CHUNK bytes.
C38_ReadTransfersAllChunks ==
    \A t \in Readers :
        /\ raw.rd[t].chunk <= UHID_CHUNK
        /\ (ReadReturned(t) /\ raw.rd[t].moved /\ raw.rd[t].error = 0) =>
               raw.rd[t].got = Min(raw.rd[t].n0, raw.rd[t].r0)

\* A sleeping reader that a dispatched report found asleep is released, and
\* when it comes back without an error it brings data.
C39_ReleasedByReport ==
    /\ \A t \in Readers : raw.rd[t].rep_asleep ~> ReadReturned(t)
    /\ [](\A t \in Readers :
            (ReadReturned(t) /\ raw.rd[t].rep_asleep /\ raw.rd[t].error = 0)
                => raw.rd[t].got > 0)

\* A sleeping reader that the locked section of detach found asleep comes
\* back with EIO.
C39_ReleasedByDetach ==
    \A t \in Readers :
        raw.rd[t].det_asleep ~> (ReadReturned(t) /\ raw.rd[t].error = EIO)

\* A non-blocking read never sleeps, and on an empty queue it comes back with
\* EWOULDBLOCK.
C39_NonBlockingNeverSleeps ==
    [](\A t \in Readers :
         raw.rd[t].nonblock =>
            /\ ~raw.rd[t].slept
            /\ (ReadReturned(t) /\ raw.rd[t].path = "queue" /\ ~raw.rd[t].moved)
                   => raw.rd[t].error = EWOULDBLOCK)

\* C39: a reader asleep in a blocking read on an empty queue is always
\* eventually released: with data once the next report reaches uhid_intr,
\* with EIO once the device detaches; a non-blocking read on an empty queue
\* returns EWOULDBLOCK without sleeping.
C39_BlockedReaderReleased ==
    /\ C39_ReleasedByReport
    /\ C39_ReleasedByDetach
    /\ C39_NonBlockingNeverSleeps

=============================================================================
